---- MODULE Spec2Model ----
(***************************************************************************)
(* IR construction (ir_gen) and IR analysis (ir_analyze) of src/ir.cpp.    *)
(*                                                                         *)
(* Instructions and basic blocks of both executables live in two stores,   *)
(* insts and bbs; an index into a store is the C++ pointer, 0 is nullptr.  *)
(* Operators take the heap h (a record of every field the code can reach)  *)
(* and return the heap after the call, as the C++ functions mutate it.     *)
(* demoted is a history of the run: the memory slots that ir_analyze has   *)
(* turned from known at compile time to known at runtime only; written is  *)
(* another: the value each memory slot was last written with.              *)
(***************************************************************************)
EXTENDS Integers, Sequences, FiniteSets, TLC

VARIABLES insts, bbs, vars, old_irb, new_irb, ira, errors, aborted, pc, step, result,
          demoted, written, type_table, fn_def_body

vars_all ==
    <<insts, bbs, vars, old_irb, new_irb, ira, errors, aborted, pc, step, result, demoted,
      written, type_table, fn_def_body>>

\* ------------------------------------------------------------------ bounds
\* largest backward_branch_quota the driver hands to ir_analyze
MaxQuota == 2

\* longest array type of the type table
MaxArrayLen == 3

\* most statements of a function body with labels and gotos
MaxStatements == 3

\* <cstdint> SIZE_MAX, scaled down to 16 bits: above every index the model reaches
SIZE_MAX == 65535

\* the largest magnitude of a big number, scaled down to 30 bits
UINT64_MAX == 1073741823

\* ------------------------------------------------------------------- types
\* TypeTableEntry handles are the interned type names.
BaseTypes == {"void", "bool", "num_lit_int", "unreachable", "type"}

get_pointer_to_type(child, is_const) ==
    IF is_const THEN "&const " \o child ELSE "&" \o child

\* The type table: every TypeTableEntry the model interns, by name, with its
\* id and the data of its variant (data.integral, data.floating, data.array,
\* data.pointer, data.maybe, data.error).  usize has the width of SIZE_MAX.
\* The variable type_table holds it: the types interned in the CodeGen.
TypeTable ==
    LET Zero == [id |-> "Null", child_type |-> "null", is_const |-> FALSE,
                 is_signed |-> FALSE, bit_count |-> 0, len |-> 0]
        Integral(bits, signed) == [Zero EXCEPT !.id = "Int", !.bit_count = bits,
                                          !.is_signed = signed]
        Named == {<<"invalid", [Zero EXCEPT !.id = "Invalid"]>>,
                  <<"void", [Zero EXCEPT !.id = "Void"]>>,
                  <<"bool", [Zero EXCEPT !.id = "Bool"]>>,
                  <<"num_lit_int", [Zero EXCEPT !.id = "NumLitInt"]>>,
                  <<"unreachable", [Zero EXCEPT !.id = "Unreachable"]>>,
                  <<"type", [Zero EXCEPT !.id = "MetaType"]>>,
                  <<"u8", Integral(8, FALSE)>>, <<"i8", Integral(8, TRUE)>>,
                  <<"u16", Integral(16, FALSE)>>, <<"usize", Integral(16, FALSE)>>,
                  <<"f32", [Zero EXCEPT !.id = "Float", !.bit_count = 32]>>}
        Arrays == { <<"[" \o ToString(n) \o "]u8",
                      [Zero EXCEPT !.id = "Array", !.child_type = "u8", !.len = n]>>
                    : n \in 1..MaxArrayLen }
        Wrapped == { <<"?" \o c, [Zero EXCEPT !.id = "Maybe", !.child_type = c]>>
                     : c \in {"u8", "u16"} }
                   \cup
                   { <<"%" \o c, [Zero EXCEPT !.id = "ErrorUnion", !.child_type = c]>>
                     : c \in {"u8", "u16"} }
        Pointers(S) == { <<get_pointer_to_type(p[1], k),
                           [Zero EXCEPT !.id = "Pointer", !.child_type = p[1],
                                        !.is_const = k]>>
                         : p \in S, k \in BOOLEAN }
        Pointees == Named \cup Arrays \cup Wrapped
        All == Pointees \cup Pointers(Pointees) \cup Pointers(Pointers(Pointees))
    IN  CHOOSE table \in { [t \in {p[1] : p \in interned} |->
                                (CHOOSE p \in interned : p[1] = t)[2]]
                            : interned \in {All} } : TRUE

PointerTypes == {t \in DOMAIN TypeTable : TypeTable[t].id = "Pointer"}

type_id(t) == IF t \in DOMAIN type_table THEN type_table[t].id ELSE "Null"

pointer_child_type(t) == type_table[t].child_type

pointer_is_const(t) == type_table[t].is_const

types_match_const_cast_only(expected_type, actual_type) ==
    \/ expected_type = actual_type
    \/ /\ type_id(expected_type) = "Pointer"
       /\ type_id(actual_type) = "Pointer"
       /\ pointer_child_type(expected_type) = pointer_child_type(actual_type)
       /\ pointer_is_const(expected_type) \/ ~pointer_is_const(actual_type)

\* ------------------------------------------------------------------ values
\* ConstExprValue; allocate<>() zeroes it, and special 0 is Runtime.  x_maybe is
\* the pointer to the payload of a maybe: << >> is nullptr, <<v>> points to v.
ZeroValue ==
    [special |-> "Runtime", x_bool |-> FALSE, x_bignum |-> 0, x_type |-> "null",
     base_ptr |-> 0, index |-> 0, x_array_size |-> 0, x_maybe |-> << >>]

StaticBool(b) == [ZeroValue EXCEPT !.special = "Static", !.x_bool = b]

\* address of ira->exec_context.mem_slot_list[i]
mem_slot_addr(i) == i + 1

\* ------------------------------------------------------------ instructions
\* IrInstruction with the fields of every variant the model uses.
ZeroInstruction ==
    [id |-> "Invalid", exec |-> "none", debug_id |-> 0, type_entry |-> "null",
     static_value |-> ZeroValue, other |-> 0, ref_count |-> 0,
     op_id |-> "none", op1 |-> 0, op2 |-> 0, var |-> 0, var_type |-> 0,
     dest_blocks |-> <<>>, incoming_values |-> <<>>, is_inline |-> FALSE,
     safety_check_on |-> FALSE, else_block |-> 0, case_values |-> <<>>]

\* codegen->invalid_instruction, the first cell of the instruction store
invalid_instruction == 1

InvalidInstructionCell ==
    [ZeroInstruction EXCEPT !.exec = "codegen", !.type_entry = "invalid"]

ZeroBasicBlock ==
    [exec |-> "none", name_hint |-> "", debug_id |-> 0, instruction_list |-> <<>>,
     ref_count |-> 0, other |-> 0]

ZeroExecutable ==
    [basic_block_list |-> <<>>, next_debug_id |-> 0, mem_slot_count |-> 0,
     is_inline |-> FALSE, invalid |-> FALSE, backward_branch_count |-> 0,
     backward_branch_quota |-> 0, all_labels |-> <<>>, goto_list |-> <<>>]

ZeroBuilder ==
    [name |-> "none", exec |-> ZeroExecutable, current_basic_block |-> 0,
     break_block_stack |-> <<>>, continue_block_stack |-> <<>>, scopes |-> <<>>,
     contexts |-> <<>>, context_count |-> 0, label_table |-> {}]

ZeroAnalyze ==
    [mem_slot_list |-> <<>>, old_bb_queue |-> <<>>, block_queue_index |-> 0,
     instruction_index |-> 0, explicit_return_type |-> "null",
     implicit_return_type_list |-> <<>>, const_predecessor_bb |-> 0]

ZeroHeap ==
    [insts |-> <<InvalidInstructionCell>>, bbs |-> <<>>, vars |-> <<>>,
     old_irb |-> [ZeroBuilder EXCEPT !.name = "old"],
     new_irb |-> [ZeroBuilder EXCEPT !.name = "new"],
     ira |-> ZeroAnalyze, errors |-> <<>>, aborted |-> FALSE]

Heap ==
    [insts |-> insts, bbs |-> bbs, vars |-> vars, old_irb |-> old_irb,
     new_irb |-> new_irb, ira |-> ira, errors |-> errors, aborted |-> aborted]

add_node_error(h, msg) == [h EXCEPT !.errors = Append(@, msg)]

\* assert(cond): a failed assertion aborts the compiler
assert(h, cond) == IF cond THEN h ELSE [h EXCEPT !.aborted = TRUE]

\* the pointer the next allocate<IrInstruction> returns
NextInst(h) == Len(h.insts) + 1

\* the pointer the next allocate<IrBasicBlock> returns
NextBlock(h) == Len(h.bbs) + 1

exec_next_debug_id(h, w) == [h EXCEPT ![w].exec.next_debug_id = @ + 1]

exec_next_mem_slot(h, w) == [h EXCEPT ![w].exec.mem_slot_count = @ + 1]

ir_ref_bb(h, bb) == [h EXCEPT !.bbs[bb].ref_count = @ + 1]

ir_ref_instruction(h, i) == [h EXCEPT !.insts[i].ref_count = @ + 1]

ir_ref_var(h, v) == [h EXCEPT !.vars[v].ref_count = @ + 1]

\* a variant of the link that forgets the way back
ir_link_old_instruction(h, new_instruction, old_instruction) ==
    [h EXCEPT !.insts[old_instruction].other = new_instruction]

ir_link_new_instruction(h, new_instruction, old_instruction) ==
    [h EXCEPT !.insts[new_instruction].other = old_instruction,
              !.insts[old_instruction].other = new_instruction]

ir_link_new_bb(h, new_bb, old_bb) ==
    [h EXCEPT !.bbs[new_bb].other = old_bb, !.bbs[old_bb].other = new_bb]

ir_should_inline(h, w) == h[w].exec.is_inline

ir_instruction_append(h, basic_block, instruction) ==
    [h EXCEPT !.bbs[basic_block].instruction_list = Append(@, instruction)]

ir_build_basic_block_raw(h, w, name_hint) ==
    exec_next_debug_id(
        [h EXCEPT !.bbs = Append(@, [ZeroBasicBlock EXCEPT
                                        !.exec = h[w].name, !.name_hint = name_hint,
                                        !.debug_id = h[w].exec.next_debug_id])], w)

ir_build_basic_block(h, w, name_hint) ==
    [ir_build_basic_block_raw(h, w, name_hint) EXCEPT
        ![w].exec.basic_block_list = Append(@, NextBlock(h))]

ir_build_bb_from(h, w, other_bb) ==
    ir_link_new_bb(ir_build_basic_block_raw(h, w, h.bbs[other_bb].name_hint),
                   NextBlock(h), other_bb)

\* ir_create_instruction<T>: a zeroed instruction with its id and debug id
ir_create_instruction(h, w, kind) ==
    exec_next_debug_id(
        [h EXCEPT !.insts = Append(@, [ZeroInstruction EXCEPT
                                          !.id = kind, !.exec = h[w].name,
                                          !.debug_id = h[w].exec.next_debug_id])], w)

ir_build_instruction(h, w, kind) ==
    ir_instruction_append(ir_create_instruction(h, w, kind), h[w].current_basic_block,
                          NextInst(h))

\* ------------------------------------------------- instruction constructors
\* Each constructor returns the heap; the instruction built is NextInst(h).
ir_build_cond_br(h, w, condition, then_block, else_block, is_inline) ==
    ir_ref_bb(ir_ref_bb(ir_ref_instruction(
        [ir_build_instruction(h, w, "CondBr") EXCEPT
            !.insts[NextInst(h)].type_entry = "unreachable",
            !.insts[NextInst(h)].static_value.special = "Static",
            !.insts[NextInst(h)].op1 = condition,
            !.insts[NextInst(h)].dest_blocks = <<then_block, else_block>>,
            !.insts[NextInst(h)].is_inline = is_inline],
        condition), then_block), else_block)

ir_build_cond_br_from(h, w, old_instruction, condition, then_block, else_block, is_inline) ==
    ir_link_new_instruction(
        ir_build_cond_br(h, w, condition, then_block, else_block, is_inline),
        NextInst(h), old_instruction)

ir_build_return(h, w, return_value) ==
    ir_ref_instruction(
        [ir_build_instruction(h, w, "Return") EXCEPT
            !.insts[NextInst(h)].type_entry = "unreachable",
            !.insts[NextInst(h)].static_value.special = "Static",
            !.insts[NextInst(h)].op1 = return_value],
        return_value)

ir_build_return_from(h, w, old_instruction, return_value) ==
    ir_link_new_instruction(ir_build_return(h, w, return_value), NextInst(h),
                            old_instruction)

\* op1 is target_value; the cases are case_values[i] with the block dest_blocks[i]
ir_build_switch_br(h, w, target_value, else_block, case_values, case_blocks, is_inline) ==
    LET RECURSIVE ref_cases(_, _)
        ref_cases(g, i) ==
            IF i > Len(case_values) THEN g
            ELSE ref_cases(ir_ref_bb(ir_ref_instruction(g, case_values[i]), case_blocks[i]),
                           i + 1)
    IN ref_cases(
           ir_ref_bb(ir_ref_instruction(
               [ir_build_instruction(h, w, "SwitchBr") EXCEPT
                   !.insts[NextInst(h)].type_entry = "unreachable",
                   !.insts[NextInst(h)].static_value.special = "Static",
                   !.insts[NextInst(h)].op1 = target_value,
                   !.insts[NextInst(h)].else_block = else_block,
                   !.insts[NextInst(h)].case_values = case_values,
                   !.insts[NextInst(h)].dest_blocks = case_blocks,
                   !.insts[NextInst(h)].is_inline = is_inline],
               target_value), else_block),
           1)

\* ir_create_const: created, not appended to any block
ir_create_const(h, w, type_entry) ==
    [ir_create_instruction(h, w, "Const") EXCEPT
        !.insts[NextInst(h)].type_entry = type_entry,
        !.insts[NextInst(h)].static_value.special = "Static"]

ir_build_const_void(h, w) ==
    [ir_build_instruction(h, w, "Const") EXCEPT
        !.insts[NextInst(h)].type_entry = "void",
        !.insts[NextInst(h)].static_value.special = "Static"]

ir_build_const_bignum(h, w, bignum) ==
    [ir_build_instruction(h, w, "Const") EXCEPT
        !.insts[NextInst(h)].type_entry = "num_lit_int",
        !.insts[NextInst(h)].static_value.special = "Static",
        !.insts[NextInst(h)].static_value.x_bignum = bignum]

ir_build_const_bool(h, w, value) ==
    [ir_build_instruction(h, w, "Const") EXCEPT
        !.insts[NextInst(h)].type_entry = "bool",
        !.insts[NextInst(h)].static_value.special = "Static",
        !.insts[NextInst(h)].static_value.x_bool = value]

ir_build_bin_op(h, w, op_id, op1, op2) ==
    ir_ref_instruction(ir_ref_instruction(
        [ir_build_instruction(h, w, "BinOp") EXCEPT
            !.insts[NextInst(h)].op_id = op_id,
            !.insts[NextInst(h)].op1 = op1,
            !.insts[NextInst(h)].op2 = op2],
        op1), op2)

ir_build_bin_op_from(h, w, old_instruction, op_id, op1, op2) ==
    ir_link_new_instruction(ir_build_bin_op(h, w, op_id, op1, op2), NextInst(h),
                            old_instruction)

\* op1 is array_ptr, op2 is elem_index
ir_build_elem_ptr(h, w, array_ptr, elem_index, safety_check_on) ==
    ir_ref_instruction(ir_ref_instruction(
        [ir_build_instruction(h, w, "ElemPtr") EXCEPT
            !.insts[NextInst(h)].op1 = array_ptr,
            !.insts[NextInst(h)].op2 = elem_index,
            !.insts[NextInst(h)].safety_check_on = safety_check_on],
        array_ptr), elem_index)

ir_build_var_ptr(h, w, var) ==
    ir_ref_var([ir_build_instruction(h, w, "VarPtr") EXCEPT !.insts[NextInst(h)].var = var],
               var)

ir_build_var_ptr_from(h, w, old_instruction, var) ==
    ir_link_new_instruction(ir_build_var_ptr(h, w, var), NextInst(h), old_instruction)

\* the loop of ir_build_phi over the incoming edges, from edge i on
RECURSIVE ir_ref_incoming(_, _, _, _)
ir_ref_incoming(h, incoming_blocks, incoming_values, i) ==
    IF i > Len(incoming_blocks) THEN h
    ELSE ir_ref_incoming(ir_ref_instruction(ir_ref_bb(h, incoming_blocks[i]),
                                            incoming_values[i]),
                         incoming_blocks, incoming_values, i + 1)

ir_build_phi(h, w, incoming_blocks, incoming_values) ==
    ir_ref_incoming(
        [ir_build_instruction(h, w, "Phi") EXCEPT
            !.insts[NextInst(h)].dest_blocks = incoming_blocks,
            !.insts[NextInst(h)].incoming_values = incoming_values],
        incoming_blocks, incoming_values, 1)

ir_build_phi_from(h, w, old_instruction, incoming_blocks, incoming_values) ==
    ir_link_new_instruction(ir_build_phi(h, w, incoming_blocks, incoming_values),
                            NextInst(h), old_instruction)

ir_create_br(h, w, dest_block, is_inline) ==
    ir_ref_bb(
        [ir_create_instruction(h, w, "Br") EXCEPT
            !.insts[NextInst(h)].type_entry = "unreachable",
            !.insts[NextInst(h)].static_value.special = "Static",
            !.insts[NextInst(h)].dest_blocks = <<dest_block>>,
            !.insts[NextInst(h)].is_inline = is_inline],
        dest_block)

ir_build_br(h, w, dest_block, is_inline) ==
    ir_instruction_append(ir_create_br(h, w, dest_block, is_inline),
                          h[w].current_basic_block, NextInst(h))

ir_build_br_from(h, w, old_instruction, dest_block) ==
    ir_link_new_instruction(ir_build_br(h, w, dest_block, FALSE), NextInst(h),
                            old_instruction)

ir_build_unreachable(h, w) ==
    [ir_build_instruction(h, w, "Unreachable") EXCEPT
        !.insts[NextInst(h)].static_value.special = "Static",
        !.insts[NextInst(h)].type_entry = "unreachable"]

ir_build_unreachable_from(h, w, old_instruction) ==
    ir_link_new_instruction(ir_build_unreachable(h, w), NextInst(h), old_instruction)

ir_build_store_ptr(h, w, ptr, value) ==
    ir_ref_instruction(ir_ref_instruction(
        [ir_build_instruction(h, w, "StorePtr") EXCEPT
            !.insts[NextInst(h)].static_value.special = "Static",
            !.insts[NextInst(h)].type_entry = "void",
            !.insts[NextInst(h)].op1 = ptr,
            !.insts[NextInst(h)].op2 = value],
        ptr), value)

ir_build_store_ptr_from(h, w, old_instruction, ptr, value) ==
    ir_link_new_instruction(ir_build_store_ptr(h, w, ptr, value), NextInst(h),
                            old_instruction)

\* the declarations of the model carry no type expression: var_type is nullptr
\* the reference to an operand that may be nullptr
ir_ref_instruction_if(h, instruction) ==
    IF instruction # 0 THEN ir_ref_instruction(h, instruction) ELSE h

ir_build_var_decl(h, w, var, var_type, init_value) ==
    ir_ref_instruction(
        ir_ref_instruction_if(
            [ir_build_instruction(h, w, "DeclVar") EXCEPT
                !.insts[NextInst(h)].static_value.special = "Static",
                !.insts[NextInst(h)].type_entry = "void",
                !.insts[NextInst(h)].var = var,
                !.insts[NextInst(h)].var_type = var_type,
                !.insts[NextInst(h)].op1 = init_value],
            var_type),
        init_value)

ir_build_var_decl_from(h, w, old_instruction, var, var_type, init_value) ==
    ir_link_new_instruction(ir_build_var_decl(h, w, var, var_type, init_value),
                            NextInst(h), old_instruction)

ir_build_load_ptr(h, w, ptr) ==
    ir_ref_instruction(
        [ir_build_instruction(h, w, "LoadPtr") EXCEPT !.insts[NextInst(h)].op1 = ptr], ptr)

ir_set_cursor_at_end(h, w, basic_block) ==
    [h EXCEPT ![w].current_basic_block = basic_block]

\* ------------------------------------------------------------- AST nodes
\* The parser's AstNode, reduced to the fields ir_gen reads.
NoNode == [type |-> "None"]

NumberLiteral(n) == [type |-> "NumberLiteral", bignum |-> n]

BoolLiteral(b) == [type |-> "BoolLiteral", value |-> b]

Symbol(name) == [type |-> "Symbol", symbol |-> name]

BinOpExpr(bin_op, op1, op2) ==
    [type |-> "BinOpExpr", bin_op |-> bin_op, op1 |-> op1, op2 |-> op2]

VariableDeclaration(name, is_const, is_inline, expr) ==
    [type |-> "VariableDeclaration", symbol |-> name, is_const |-> is_const,
     is_inline |-> is_inline, expr |-> expr]

IfBoolExpr(condition, then_block, else_node, is_inline) ==
    [type |-> "IfBoolExpr", condition |-> condition, then_block |-> then_block,
     else_node |-> else_node, is_inline |-> is_inline]

WhileExpr(condition, continue_expr, body, is_inline) ==
    [type |-> "WhileExpr", condition |-> condition, continue_expr |-> continue_expr,
     body |-> body, is_inline |-> is_inline]

Block(statements) == [type |-> "Block", statements |-> statements]

ReturnExpr(expr) == [type |-> "ReturnExpr", expr |-> expr]

\* a call of the builtin function named
BuiltinFnCall(name) == [type |-> "FnCallExpr", is_builtin |-> TRUE, name |-> name]

\* ------------------------------------------------------------- IR builder
\* A function that returns a value and changes the heap returns both.
Res(h, r) == [h |-> h, r |-> r]

\* Only({ e : x \in {call} }) is the C++ sequence  x = call; e  : the call is
\* made once, and e goes on from what it returned.
Only(S) == CHOOSE x \in S : TRUE

\* find_variable: innermost scope first
find_variable(h, name) ==
    LET scopes == h.old_irb.scopes
        Has(i) == { j \in 1..Len(scopes[i]) : h.vars[scopes[i][j]].name = name }
        hits == { i \in 1..Len(scopes) : Has(i) # {} }
        top == CHOOSE i \in hits : \A k \in hits : k <= i
        newest == CHOOSE j \in Has(top) : \A k \in Has(top) : k <= j
    IN IF hits = {} THEN 0 ELSE scopes[top][newest]

\* add_local_var: a name that is taken and not shadowable is an error, and the
\* variable is of type invalid; the variable is Len(h.vars) + 1
add_local_var(h, name, src_is_const, gen_is_const, is_shadowable, is_inline) ==
    Only({ [(IF redeclared THEN add_node_error(h, "redeclaration of variable") ELSE h)
               EXCEPT
               !.vars = Append(@, [name |-> name,
                                   type |-> IF redeclared THEN "invalid" ELSE "null",
                                   shadowable |-> is_shadowable,
                                   mem_slot_index |-> SIZE_MAX,
                                   is_inline |-> is_inline, src_is_const |-> src_is_const,
                                   gen_is_const |-> gen_is_const, ref_count |-> 0,
                                   fn_entry |-> TRUE]),
               !.old_irb.scopes[Len(h.old_irb.scopes)] = Append(@, Len(h.vars) + 1)]
           : redeclared \in { IF find_variable(h, name) = 0 THEN FALSE
                              ELSE ~h.vars[find_variable(h, name)].shadowable } })

ir_add_local_var(h, w, name, src_is_const, gen_is_const, is_shadowable, is_inline) ==
    IF is_inline \/ gen_is_const
    THEN exec_next_mem_slot(
             [add_local_var(h, name, src_is_const, gen_is_const, is_shadowable, is_inline)
                 EXCEPT !.vars[Len(h.vars) + 1].mem_slot_index = h[w].exec.mem_slot_count],
             w)
    ELSE add_local_var(h, name, src_is_const, gen_is_const, is_shadowable, is_inline)

RECURSIVE ir_gen_node_extra(_, _, _)

ir_gen_node(h, node) == ir_gen_node_extra(h, node, "None")

\* the nodes of the model are given an lvalue purpose only when they are symbols
ir_lval_wrap(res, lval) == res

\* ir_build_const_void as the value of an expression
ir_gen_const_void(h) == Res(ir_build_const_void(h, "old_irb"), NextInst(h))

RECURSIVE ir_gen_statements(_, _, _, _)

\* the loop of ir_gen_block, from statement i on
ir_gen_statements(h, block_node, i, return_value) ==
    IF i > Len(block_node.statements) THEN Res(h, return_value)
    ELSE Only({ ir_gen_statements(g.h, block_node, i + 1, g.r)
                : g \in {ir_gen_node(h, block_node.statements[i])} })

\* a block with no statement is void; the child context ends with the block.
\* contexts is the chain of the block contexts open, each a new_block_context,
\* and label_table the labels put in the label tables of the block contexts.
ir_gen_block(h, block_node) ==
    Only({ Res([(IF body.r = 0 THEN ir_build_const_void(body.h, "old_irb") ELSE body.h)
                   EXCEPT !.old_irb.scopes = SubSeq(@, 1, Len(@) - 1),
                          !.old_irb.contexts = SubSeq(@, 1, Len(@) - 1)],
               IF body.r = 0 THEN NextInst(body.h) ELSE body.r)
           : body \in {ir_gen_statements(
                           [h EXCEPT !.old_irb.scopes = Append(@, <<>>),
                                     !.old_irb.contexts =
                                         Append(@, h.old_irb.context_count + 1),
                                     !.old_irb.context_count = @ + 1],
                           block_node, 1, 0)} })

ir_gen_return(h, node) ==
    Only({ Res(ir_build_return(return_value.h, "old_irb", return_value.r),
               NextInst(return_value.h))
           : return_value \in {IF node.expr.type # "None" THEN ir_gen_node(h, node.expr)
                               ELSE ir_gen_const_void(h)} })

ir_gen_bin_op_id(h, node, op_id) ==
    Only({ Only({ Res(ir_build_bin_op(op2.h, "old_irb", op_id, op1.r, op2.r),
                      NextInst(op2.h))
                  : op2 \in {ir_gen_node(op1.h, node.op2)} })
           : op1 \in {ir_gen_node(h, node.op1)} })

ir_gen_assign(h, node) ==
    Only({ IF lvalue.r = invalid_instruction THEN lvalue
           ELSE Only({ IF rvalue.r = invalid_instruction THEN rvalue
                       ELSE ir_gen_const_void(
                                ir_build_store_ptr(rvalue.h, "old_irb", lvalue.r, rvalue.r))
                       : rvalue \in {ir_gen_node(lvalue.h, node.op2)} })
           : lvalue \in {ir_gen_node_extra(h, node.op1, "Assign")} })

\* op1 is the load of the lvalue, NextInst(lvalue.h); the result of the
\* operation is NextInst(op2.h)
ir_gen_assign_op(h, node, op_id) ==
    Only({ IF lvalue.r = invalid_instruction THEN lvalue
           ELSE Only({ IF op2.r = invalid_instruction THEN op2
                       ELSE ir_gen_const_void(
                                ir_build_store_ptr(
                                    ir_build_bin_op(op2.h, "old_irb", op_id,
                                                    NextInst(lvalue.h), op2.r),
                                    "old_irb", lvalue.r, NextInst(op2.h)))
                       : op2 \in {ir_gen_node(
                                      ir_build_load_ptr(lvalue.h, "old_irb", lvalue.r),
                                      node.op2)} })
           : lvalue \in {ir_gen_node_extra(h, node.op1, "Assign")} })

ir_gen_bin_op(h, node) ==
    CASE node.bin_op = "Assign" -> ir_gen_assign(h, node)
      [] node.bin_op = "AssignPlus" -> ir_gen_assign_op(h, node, "Add")
      [] node.bin_op = "CmpEq" -> ir_gen_bin_op_id(h, node, "CmpEq")
      [] node.bin_op = "CmpLessThan" -> ir_gen_bin_op_id(h, node, "CmpLessThan")
      [] node.bin_op = "Add" -> ir_gen_bin_op_id(h, node, "Add")

ir_gen_num_lit(h, node) ==
    Res(ir_build_const_bignum(h, "old_irb", node.bignum), NextInst(h))

ir_gen_bool_literal(h, node) ==
    Res(ir_build_const_bool(h, "old_irb", node.value), NextInst(h))

ir_gen_symbol(h, node, lval) ==
    IF find_variable(h, node.symbol) = 0
    THEN Res(add_node_error(h, "use of undeclared identifier"), invalid_instruction)
    ELSE IF lval # "None"
    THEN Res(ir_build_var_ptr(h, "old_irb", find_variable(h, node.symbol)), NextInst(h))
    ELSE Res(ir_build_load_ptr(
                 ir_build_var_ptr(h, "old_irb", find_variable(h, node.symbol)),
                 "old_irb", NextInst(h)),
             NextInst(h) + 1)

\* the blocks are then_block NextBlock(condition.h), else_block the next and
\* endif_block the one after; the Phi follows the branch out of the else block
ir_gen_if_bool_expr(h, node) ==
    Only({ IF condition.r = invalid_instruction THEN condition
           ELSE
    Only({ IF then_expr_result.r = invalid_instruction THEN then_expr_result
           ELSE
    Only({ IF else_expr_result.r = invalid_instruction THEN else_expr_result
           ELSE Res(ir_build_phi(
                        ir_set_cursor_at_end(
                            ir_build_br(else_expr_result.h, "old_irb",
                                        NextBlock(condition.h) + 2,
                                        ir_should_inline(h, "old_irb") \/ node.is_inline),
                            "old_irb", NextBlock(condition.h) + 2),
                        "old_irb",
                        <<then_expr_result.h.old_irb.current_basic_block,
                          else_expr_result.h.old_irb.current_basic_block>>,
                        <<then_expr_result.r, else_expr_result.r>>),
                    NextInst(else_expr_result.h) + 1)
           : else_expr_result \in {
                 IF node.else_node.type # "None"
                 THEN ir_gen_node(
                          ir_set_cursor_at_end(
                              ir_build_br(then_expr_result.h, "old_irb",
                                          NextBlock(condition.h) + 2,
                                          ir_should_inline(h, "old_irb") \/ node.is_inline),
                              "old_irb", NextBlock(condition.h) + 1),
                          node.else_node)
                 ELSE ir_gen_const_void(
                          ir_set_cursor_at_end(
                              ir_build_br(then_expr_result.h, "old_irb",
                                          NextBlock(condition.h) + 2,
                                          ir_should_inline(h, "old_irb") \/ node.is_inline),
                              "old_irb", NextBlock(condition.h) + 1)) } })
           : then_expr_result \in {
                 ir_gen_node(
                     ir_set_cursor_at_end(
                         ir_build_cond_br(
                             ir_build_basic_block(
                                 ir_build_basic_block(
                                     ir_build_basic_block(condition.h, "old_irb", "Then"),
                                     "old_irb", "Else"),
                                 "old_irb", "EndIf"),
                             "old_irb", condition.r, NextBlock(condition.h),
                             NextBlock(condition.h) + 1,
                             ir_should_inline(h, "old_irb") \/ node.is_inline),
                         "old_irb", NextBlock(condition.h)),
                     node.then_block) } })
           : condition \in {ir_gen_node(h, node.condition)} })

\* the variable is Len(init_value.h.vars) + 1
ir_gen_var_decl(h, node) ==
    Only({ IF init_value.r = invalid_instruction THEN init_value
           ELSE Res(ir_build_var_decl(
                        ir_add_local_var(init_value.h, "old_irb", node.symbol,
                                         node.is_const, node.is_const, FALSE,
                                         ir_should_inline(h, "old_irb") \/ node.is_inline),
                        "old_irb", Len(init_value.h.vars) + 1, 0, init_value.r),
                    NextInst(init_value.h))
           : init_value \in {ir_gen_node(h, node.expr)} })

\* the blocks of a while expression, as ir_gen_while_expr names them
WhileBlocks(h, has_continue, is_inline) ==
    [cond_block |-> NextBlock(h), body_block |-> NextBlock(h) + 1,
     continue_block |-> IF has_continue THEN NextBlock(h) + 2 ELSE NextBlock(h),
     end_block |-> IF has_continue THEN NextBlock(h) + 3 ELSE NextBlock(h) + 2,
     is_inline |-> is_inline]

\* the four blocks, WhileContinue only with a continue expression, and the
\* branch into the condition
ir_gen_while_expr_blocks(h, node, b) ==
    ir_build_br(
        ir_build_basic_block(
            IF node.continue_expr.type # "None"
            THEN ir_build_basic_block(
                     ir_build_basic_block(ir_build_basic_block(h, "old_irb", "WhileCond"),
                                          "old_irb", "WhileBody"),
                     "old_irb", "WhileContinue")
            ELSE ir_build_basic_block(ir_build_basic_block(h, "old_irb", "WhileCond"),
                                      "old_irb", "WhileBody"),
            "old_irb", "WhileEnd"),
        "old_irb", b.cond_block, b.is_inline)

\* the continue expression and the branch from it to the condition
ir_gen_while_expr_continue(h, node, b) ==
    IF node.continue_expr.type # "None"
    THEN Only({ ir_build_br(expr_result.h, "old_irb", b.cond_block, b.is_inline)
                : expr_result \in {
                      ir_gen_node(ir_set_cursor_at_end(h, "old_irb", b.continue_block),
                                  node.continue_expr)} })
    ELSE h

ir_gen_while_expr(h, node) ==
    Only({
    Only({
    Only({ ir_gen_const_void(
               ir_set_cursor_at_end(
                   ir_build_br([body_result.h EXCEPT
                                   !.old_irb.break_block_stack = SubSeq(@, 1, Len(@) - 1),
                                   !.old_irb.continue_block_stack =
                                       SubSeq(@, 1, Len(@) - 1)],
                               "old_irb", b.continue_block, b.is_inline),
                   "old_irb", b.end_block))
           : body_result \in {
                 ir_gen_node(
                     [ir_set_cursor_at_end(
                          ir_build_cond_br(cond_val.h, "old_irb", cond_val.r, b.body_block,
                                           b.end_block, b.is_inline),
                          "old_irb", b.body_block)
                         EXCEPT !.old_irb.break_block_stack = Append(@, b.end_block),
                                !.old_irb.continue_block_stack =
                                    Append(@, b.continue_block)],
                     node.body) } })
           : cond_val \in {
                 ir_gen_node(
                     ir_set_cursor_at_end(
                         ir_gen_while_expr_continue(ir_gen_while_expr_blocks(h, node, b),
                                                    node, b),
                         "old_irb", b.cond_block),
                     node.condition) } })
           : b \in {WhileBlocks(h, node.continue_expr.type # "None",
                                ir_should_inline(h, "old_irb") \/ node.is_inline)} })

\* @unreachable() is the builtin of the model
ir_gen_builtin_fn_call(h, node) ==
    Res(ir_build_unreachable(h, "old_irb"), NextInst(h))

\* a variant of the search that looks into every block context
find_label_anywhere(h, orig_context, name) ==
    IF \E l \in h.old_irb.label_table : h.old_irb.exec.all_labels[l].name = name
    THEN CHOOSE l \in h.old_irb.label_table : h.old_irb.exec.all_labels[l].name = name
    ELSE 0

\* find_label: the label of the name in the innermost block context of the
\* chain that has one, an index of all_labels, or 0
find_label(h, orig_context, name) ==
    LET found == { l \in h.old_irb.label_table :
                       /\ h.old_irb.exec.all_labels[l].name = name
                       /\ \E c \in DOMAIN orig_context :
                              orig_context[c] = h.old_irb.exec.all_labels[l].context }
    IN IF found = {} THEN 0
       ELSE CHOOSE l \in found :
                \A k \in found : h.old_irb.exec.all_labels[k].context
                                      <= h.old_irb.exec.all_labels[l].context

ir_gen_label(h, node) ==
    LET label_block == NextBlock(h)
        labelled == [ir_build_basic_block(h, "old_irb", node.name) EXCEPT
                        !.old_irb.exec.all_labels =
                            Append(@, [name |-> node.name, bb |-> label_block,
                                       context |->
                                           IF h.old_irb.contexts = << >> THEN 0
                                           ELSE h.old_irb.contexts[Len(h.old_irb.contexts)],
                                       used |-> FALSE])]
    IN IF find_label(labelled, h.old_irb.contexts, node.name) # 0
       THEN Res(add_node_error(labelled, "duplicate label name"), invalid_instruction)
       ELSE Only({ Res(ir_build_const_void(g, "old_irb"), NextInst(g))
                   : g \in {ir_set_cursor_at_end(
                                ir_build_br(
                                    [labelled EXCEPT
                                        !.old_irb.label_table =
                                            @ \cup {Len(labelled.old_irb.exec.all_labels)}],
                                    "old_irb", label_block,
                                    ir_should_inline(h, "old_irb")),
                                "old_irb", label_block)} })

\* the placeholder of a goto is an Unreachable
ir_gen_goto(h, node) ==
    Res(ir_build_unreachable(
            [h EXCEPT !.old_irb.exec.goto_list =
                          Append(@, [name |-> node.name, is_inline |-> node.is_inline,
                                     block_context |-> h.old_irb.contexts,
                                     bb |-> h.old_irb.current_basic_block,
                                     instruction_index |->
                                         Len(h.bbs[h.old_irb.current_basic_block]
                                                 .instruction_list)])],
            "old_irb"),
        NextInst(h))

\* r is FALSE when a goto names no label in scope or a label is not used
ir_goto_pass2(h) ==
    LET RECURSIVE gotos(_, _)
        gotos(g, i) ==
            IF i > Len(g.old_irb.exec.goto_list)
            THEN LET unused == { l \in DOMAIN g.old_irb.exec.all_labels :
                                     ~g.old_irb.exec.all_labels[l].used }
                 IN IF unused # {}
                    THEN Res(add_node_error(g, "label defined but not used"), FALSE)
                    ELSE Res(g, TRUE)
            ELSE LET goto_node == g.old_irb.exec.goto_list[i]
                     old_instruction_ ==
                         g.bbs[goto_node.bb].instruction_list[goto_node.instruction_index + 1]
                     label == find_label(g, goto_node.block_context, goto_node.name)
                 IN IF label = 0
                    THEN Res(add_node_error(g, "no label in scope named"), FALSE)
                    ELSE gotos([ir_create_br(
                                    [g EXCEPT !.old_irb.exec.all_labels[label].used = TRUE],
                                    "old_irb", g.old_irb.exec.all_labels[label].bb,
                                    ir_should_inline(g, "old_irb") \/ goto_node.is_inline)
                                   EXCEPT
                                   !.insts[NextInst(g)].ref_count =
                                       g.insts[old_instruction_].ref_count,
                                   !.bbs[goto_node.bb]
                                     .instruction_list[goto_node.instruction_index + 1] =
                                       NextInst(g)],
                               i + 1)
    IN gotos(h, 1)

\* a break or a continue is one of the nodes left to zig_panic, which aborts
ir_gen_node_raw(h, node, lval) ==
    CASE node.type = "Block" -> ir_lval_wrap(ir_gen_block(h, node), lval)
      [] node.type = "BinOpExpr" -> ir_lval_wrap(ir_gen_bin_op(h, node), lval)
      [] node.type = "NumberLiteral" -> ir_lval_wrap(ir_gen_num_lit(h, node), lval)
      [] node.type = "Symbol" -> ir_gen_symbol(h, node, lval)
      [] node.type = "IfBoolExpr" -> ir_lval_wrap(ir_gen_if_bool_expr(h, node), lval)
      [] node.type = "VariableDeclaration" -> ir_lval_wrap(ir_gen_var_decl(h, node), lval)
      [] node.type = "WhileExpr" -> ir_lval_wrap(ir_gen_while_expr(h, node), lval)
      [] node.type = "ReturnExpr" -> ir_lval_wrap(ir_gen_return(h, node), lval)
      [] node.type = "BoolLiteral" -> ir_lval_wrap(ir_gen_bool_literal(h, node), lval)
      [] node.type = "FnCallExpr" -> ir_lval_wrap(ir_gen_builtin_fn_call(h, node), lval)
      [] node.type = "Label" -> ir_lval_wrap(ir_gen_label(h, node), lval)
      [] node.type = "Goto" -> ir_lval_wrap(ir_gen_goto(h, node), lval)
      [] node.type \in {"Break", "Continue"} ->
            Res([h EXCEPT !.aborted = TRUE], invalid_instruction)

\* an invalid result marks the executable
ir_gen_node_extra(h, node, lval) ==
    Only({ Res([g.h EXCEPT !.old_irb.exec.invalid = @ \/ (g.r = invalid_instruction)], g.r)
           : g \in {ir_gen_node_raw(h, node, lval)} })

\* ir_gen up to ir_goto_pass2: the unverified executable of a function body,
\* whose value is returned
ir_gen_body(h, node) ==
    Only({ IF g.h.old_irb.exec.invalid THEN g.h
           ELSE ir_build_return(g.h, "old_irb", g.r)
           : g \in {ir_gen_node_extra(
                        ir_ref_bb(ir_set_cursor_at_end(
                                      ir_build_basic_block(h, "old_irb", "Entry"),
                                      "old_irb", NextBlock(h)),
                                  NextBlock(h)),
                        node, "None")} })

\* an executable whose gotos cannot be resolved is invalid
ir_gen(h, node) ==
    Only({ IF g.old_irb.exec.invalid THEN g
           ELSE Only({ [pass.h EXCEPT !.old_irb.exec.invalid = ~pass.r]
                       : pass \in {ir_goto_pass2(g)} })
           : g \in {ir_gen_body(h, node)} })

\* ------------------------------------------------------------- IR analysis
RECURSIVE PhiPredecessorsFrom(_, _, _)

PhiPredecessorsFrom(h, list, instr_i) ==
    IF instr_i > Len(list) THEN <<>>
    ELSE IF h.insts[list[instr_i]].id # "Phi" THEN <<>>
    ELSE h.insts[list[instr_i]].dest_blocks \o PhiPredecessorsFrom(h, list, instr_i + 1)

\* the incoming blocks of the Phi instructions that lead old_bb
PhiPredecessors(h, old_bb) == PhiPredecessorsFrom(h, h.bbs[old_bb].instruction_list, 1)

RECURSIVE ir_get_new_bb(_, _)

RECURSIVE ir_queue_predecessors(_, _, _)

\* the loops of ir_get_new_bb over the incoming blocks
ir_queue_predecessors(h, predecessors, incoming_i) ==
    IF incoming_i > Len(predecessors) THEN h
    ELSE Only({ ir_queue_predecessors(g.h, predecessors, incoming_i + 1)
                : g \in {ir_get_new_bb(h, predecessors[incoming_i])} })

\* a variant of the tail that queues old_bb without the walk over its Phis
ir_queue_bb_unwalked(h, old_bb) ==
    [h EXCEPT !.ira.old_bb_queue = Append(@, old_bb)]

\* the tail of ir_get_new_bb: the Phi predecessors are queued, then old_bb is
ir_queue_bb(h, old_bb) ==
    Only({ [ir_queue_predecessors(h, predecessors, 1) EXCEPT
               !.ira.old_bb_queue = Append(@, old_bb)]
           : predecessors \in {PhiPredecessors(h, old_bb)} })

\* the new block is NextBlock(h)
ir_get_new_bb(h, old_bb) ==
    IF h.bbs[old_bb].other # 0 THEN Res(h, h.bbs[old_bb].other)
    ELSE Only({ Res(ir_queue_bb(h1, old_bb), NextBlock(h))
                : h1 \in {ir_build_bb_from(h, "new_irb", old_bb)} })

ir_start_bb(h, old_bb, const_predecessor_bb) ==
    [h EXCEPT !.ira.instruction_index = 0,
              !.old_irb.current_basic_block = old_bb,
              !.ira.const_predecessor_bb = const_predecessor_bb,
              !.new_irb.exec.basic_block_list =
                  IF h.bbs[old_bb].other # 0 THEN Append(@, h.bbs[old_bb].other) ELSE @]

ir_finish_bb(h) ==
    IF h.ira.block_queue_index + 1 < Len(h.ira.old_bb_queue)
    THEN Only({ ir_start_bb([new_bb.h EXCEPT !.new_irb.current_basic_block = new_bb.r],
                            h.ira.old_bb_queue[h.ira.block_queue_index + 2], 0)
                : new_bb \in {ir_get_new_bb([h EXCEPT !.ira.block_queue_index = @ + 1],
                                            h.ira.old_bb_queue[h.ira.block_queue_index + 2])} })
    ELSE [h EXCEPT !.ira.block_queue_index = @ + 1]

\* a variant that stops the queue without a mark on the executable
ir_unreach_unmarked(h) ==
    Res([h EXCEPT !.ira.block_queue_index = SIZE_MAX], "unreachable")

ir_unreach_error(h) ==
    Res([h EXCEPT !.ira.block_queue_index = SIZE_MAX, !.new_irb.exec.invalid = TRUE],
        "unreachable")

\* the test of ir_inline_bb for a branch that goes backwards
is_backward_branch(h, old_bb) ==
    h.bbs[old_bb].debug_id <= h.bbs[h.old_irb.current_basic_block].debug_id

\* a variant of the quota test that gives up one backward branch early
quota_reached(exec) == exec.backward_branch_count >= exec.backward_branch_quota

\* the test of ir_inline_bb for a count beyond the quota
quota_exceeded(exec) == exec.backward_branch_count > exec.backward_branch_quota

ir_inline_bb(h, source_instruction, old_bb) ==
    Only({ IF is_backward_branch(h, old_bb) /\ quota_exceeded(counted.new_irb.exec)
           THEN ir_unreach_error(
                    add_node_error(counted, "evaluation exceeded backwards branches"))
           ELSE Res(ir_start_bb(counted, old_bb, h.old_irb.current_basic_block),
                    "unreachable")
           : counted \in {[h EXCEPT !.new_irb.exec.backward_branch_count =
                                        IF is_backward_branch(h, old_bb) THEN @ + 1
                                        ELSE @]} })

ir_finish_anal(h, result_type) ==
    IF type_id(result_type) = "Unreachable" THEN Res(ir_finish_bb(h), result_type)
    ELSE Res(h, result_type)

\* ir_build_const_from: the new instruction is NextInst(h)
ir_build_const_from(h, old_instruction) ==
    [ir_link_new_instruction(
         IF h.insts[old_instruction].id = "VarPtr"
         THEN [ir_create_instruction(h, "new_irb", "VarPtr") EXCEPT
                  !.insts[NextInst(h)].var = h.insts[old_instruction].var]
         ELSE ir_create_instruction(h, "new_irb", "Const"),
         NextInst(h), old_instruction)
        EXCEPT !.insts[NextInst(h)].static_value.special = "Static"]

ir_analyze_void(h, instruction) ==
    Res(ir_build_const_from(h, instruction), "void")

ir_analyze_const_ptr(h, instruction, pointee, pointee_type) ==
    Res([ir_build_const_from(h, instruction) EXCEPT
            !.insts[NextInst(h)].static_value.base_ptr = pointee,
            !.insts[NextInst(h)].static_value.index = SIZE_MAX],
        get_pointer_to_type(pointee_type, TRUE))

\* ir_resolve_const: r is FALSE for the nullptr result
ir_resolve_const(h, value) ==
    IF h.insts[value].static_value.special # "Static"
    THEN Res(add_node_error(h, "unable to evaluate constant expression"), FALSE)
    ELSE Res(h, TRUE)

\* const_ptr_pointee: the address of the memory slot behind a constant pointer
const_ptr_pointee(const_val) == const_val.base_ptr

\* bignum_fits_in_bits: the value lies in the range of an integer of that width
bignum_fits_in_bits(bn, bit_count, is_signed) ==
    IF is_signed THEN -(2 ^ (bit_count - 1)) <= bn /\ bn < 2 ^ (bit_count - 1)
    ELSE 0 <= bn /\ bn < 2 ^ bit_count

\* a variant that reports nothing when the literal does not fit
ir_num_lit_fits_silently(h, instruction, other_type) ==
    Res(assert(h, h.insts[instruction].static_value.special # "Runtime"),
        \/ type_id(other_type) \in {"Float", "NumLitInt"}
        \/ /\ type_id(other_type) = "Int"
           /\ bignum_fits_in_bits(h.insts[instruction].static_value.x_bignum,
                                  type_table[other_type].bit_count,
                                  type_table[other_type].is_signed))

\* r is the bool returned; a Runtime literal fails the assertion.  The
\* literals of the model are of kind BigNumKindInt.
ir_num_lit_fits_in_other_type(h, instruction, other_type) ==
    IF type_id(other_type) = "Invalid" THEN Res(h, FALSE)
    ELSE IF \/ type_id(other_type) = "Float"
            \/ /\ type_id(other_type) = "Int"
               /\ bignum_fits_in_bits(h.insts[instruction].static_value.x_bignum,
                                      type_table[other_type].bit_count,
                                      type_table[other_type].is_signed)
            \/ type_id(other_type) = "NumLitInt"
    THEN Res(assert(h, h.insts[instruction].static_value.special # "Runtime"), TRUE)
    ELSE Res(add_node_error(
                 assert(h, h.insts[instruction].static_value.special # "Runtime"),
                 "integer value cannot be implicitly casted to type"),
             FALSE)

RECURSIVE ir_determine_peer_types_from(_, _, _, _)

\* the loop of ir_determine_peer_types, from instruction i on
ir_determine_peer_types_from(h, instructions, prev_inst, i) ==
    IF i > Len(instructions) THEN Res(h, h.insts[prev_inst].type_entry)
    ELSE LET cur_inst == instructions[i]
             cur_type == h.insts[instructions[i]].type_entry
             prev_type == h.insts[prev_inst].type_entry
         IN IF type_id(cur_type) = "Invalid" THEN Res(h, cur_type)
            ELSE IF types_match_const_cast_only(prev_type, cur_type)
            THEN ir_determine_peer_types_from(h, instructions, prev_inst, i + 1)
            ELSE IF types_match_const_cast_only(cur_type, prev_type)
            THEN ir_determine_peer_types_from(h, instructions, cur_inst, i + 1)
            ELSE IF type_id(prev_type) = "Unreachable"
            THEN ir_determine_peer_types_from(h, instructions, cur_inst, i + 1)
            ELSE IF type_id(cur_type) = "Unreachable"
            THEN ir_determine_peer_types_from(h, instructions, prev_inst, i + 1)
            ELSE IF \/ /\ type_id(prev_type) = "Int"
                       /\ type_id(cur_type) = "Int"
                       /\ type_table[prev_type].is_signed = type_table[cur_type].is_signed
                    \/ type_id(prev_type) = "Float" /\ type_id(cur_type) = "Float"
            THEN ir_determine_peer_types_from(
                     h, instructions,
                     IF type_table[cur_type].bit_count > type_table[prev_type].bit_count
                     THEN cur_inst ELSE prev_inst,
                     i + 1)
            ELSE IF /\ type_id(prev_type) = "ErrorUnion"
                    /\ types_match_const_cast_only(type_table[prev_type].child_type, cur_type)
            THEN ir_determine_peer_types_from(h, instructions, prev_inst, i + 1)
            ELSE IF /\ type_id(cur_type) = "ErrorUnion"
                    /\ types_match_const_cast_only(type_table[cur_type].child_type, prev_type)
            THEN ir_determine_peer_types_from(h, instructions, cur_inst, i + 1)
            ELSE IF type_id(prev_type) = "NumLitInt"
            THEN Only({ IF fits.r
                        THEN ir_determine_peer_types_from(fits.h, instructions, cur_inst,
                                                          i + 1)
                        ELSE Res(fits.h, "invalid")
                        : fits \in {ir_num_lit_fits_in_other_type(h, prev_inst, cur_type)} })
            ELSE IF type_id(cur_type) = "NumLitInt"
            THEN Only({ IF fits.r
                        THEN ir_determine_peer_types_from(fits.h, instructions, prev_inst,
                                                          i + 1)
                        ELSE Res(fits.h, "invalid")
                        : fits \in {ir_num_lit_fits_in_other_type(h, cur_inst, prev_type)} })
            ELSE Res(add_node_error(h, "incompatible types"), "invalid")

\* a variant that compares the first instruction unlooked at
ir_determine_peer_types_unchecked(h, instructions) ==
    ir_determine_peer_types_from(h, instructions, instructions[1], 2)

ir_determine_peer_types(h, instructions) ==
    IF Len(instructions) < 1 THEN Res(assert(h, FALSE), "invalid")
    ELSE IF type_id(h.insts[instructions[1]].type_entry) = "Invalid" THEN Res(h, "invalid")
    ELSE ir_determine_peer_types_from(h, instructions, instructions[1], 2)

RECURSIVE ir_types_match_with_implicit_cast(_, _, _, _)

\* The tests on a maybe type and on an error union take the answer for the child
\* type as a bool: ReportedError counts as yes there, as every answer but No.
ir_types_match_with_implicit_cast(h, expected_type, actual_type, value) ==
    LET unwrapped(g) ==
            IF \/ /\ type_id(expected_type) = "Int"
                  /\ type_id(actual_type) = "Int"
                  /\ type_table[expected_type].is_signed = type_table[actual_type].is_signed
                  /\ type_table[expected_type].bit_count >= type_table[actual_type].bit_count
               \/ /\ type_id(expected_type) = "Int"
                  /\ type_table[expected_type].is_signed
                  /\ type_id(actual_type) = "Int"
                  /\ ~type_table[actual_type].is_signed
                  /\ type_table[expected_type].bit_count > type_table[actual_type].bit_count
               \/ /\ type_id(expected_type) = "Float"
                  /\ type_id(actual_type) = "Float"
                  /\ type_table[expected_type].bit_count >= type_table[actual_type].bit_count
            THEN Res(g, "Yes")
            ELSE IF type_id(actual_type) = "NumLitInt"
            THEN Only({ Res(fits.h, IF fits.r THEN "Yes" ELSE "ReportedError")
                        : fits \in {ir_num_lit_fits_in_other_type(g, value, expected_type)} })
            ELSE Res(g, "No")
    IN IF types_match_const_cast_only(expected_type, actual_type) THEN Res(h, "Yes")
       ELSE IF type_id(expected_type) \in {"Maybe", "ErrorUnion"}
       THEN Only({ IF child.r # "No" THEN Res(child.h, "Yes") ELSE unwrapped(child.h)
                   : child \in {ir_types_match_with_implicit_cast(
                                    h, type_table[expected_type].child_type, actual_type,
                                    value)} })
       ELSE unwrapped(h)

ir_resolve_peer_types(h, instructions) == ir_determine_peer_types(h, instructions)

\* eval_const_expr_implicit_cast keeps the payload of the value, whatever the
\* cast, but for CastOpMaybeWrap, the cast of a value to the maybe of its type,
\* which makes the value the payload of a maybe
ir_resolve_cast(h, source_instr, value, wanted_type) ==
    IF h.insts[value].static_value.special # "Runtime"
    THEN Res([ir_create_const(h, "new_irb", wanted_type) EXCEPT
                 !.insts[NextInst(h)].static_value =
                     IF /\ type_id(wanted_type) = "Maybe"
                        /\ ~types_match_const_cast_only(wanted_type,
                                                        h.insts[value].type_entry)
                     THEN [ZeroValue EXCEPT !.special = "Static",
                                            !.x_maybe = <<h.insts[value].static_value>>]
                     ELSE h.insts[value].static_value],
             NextInst(h))
    ELSE Res(ir_ref_instruction(
                 [ir_build_instruction(h, "new_irb", "Cast") EXCEPT
                     !.insts[NextInst(h)].op1 = value,
                     !.insts[NextInst(h)].type_entry = wanted_type],
                 value),
             NextInst(h))

\* the casts between the types of the type table, in the order of the source
ir_analyze_cast(h, source_instr, wanted_type, value) ==
    LET actual_type == h.insts[value].type_entry
        wanted == type_id(wanted_type)
        actual == type_id(actual_type)
        literal(other_type) ==
            Only({ IF ~fits.r THEN Res(fits.h, invalid_instruction)
                   ELSE IF type_id(other_type) \in {"Int", "Float"}
                   THEN ir_resolve_cast(fits.h, source_instr, value, wanted_type)
                   ELSE Res(assert(fits.h, FALSE), invalid_instruction)
                   : fits \in {ir_num_lit_fits_in_other_type(h, value, other_type)} })
    IN IF wanted = "Invalid" \/ actual = "Invalid" THEN Res(h, invalid_instruction)
       ELSE IF \/ types_match_const_cast_only(wanted_type, actual_type)
               \/ wanted = "Int" /\ actual = "Bool"
               \/ wanted_type = "usize" /\ actual = "Pointer"
               \/ wanted = "Pointer" /\ actual_type = "usize"
               \/ wanted = "Int" /\ actual = "Int"
               \/ wanted = "Float" /\ actual = "Float"
               \/ wanted = "Float" /\ actual = "Int"
               \/ wanted = "Int" /\ actual = "Float"
               \/ wanted = "Pointer" /\ actual = "Pointer"
               \/ /\ wanted \in {"Maybe", "ErrorUnion"}
                  /\ types_match_const_cast_only(type_table[wanted_type].child_type,
                                                 actual_type)
       THEN ir_resolve_cast(h, source_instr, value, wanted_type)
       ELSE IF wanted \in {"Maybe", "ErrorUnion"} /\ actual = "NumLitInt"
       THEN Only({ IF fits.r THEN ir_resolve_cast(fits.h, source_instr, value, wanted_type)
                   ELSE Res(fits.h, invalid_instruction)
                   : fits \in {ir_num_lit_fits_in_other_type(
                                   h, value, type_table[wanted_type].child_type)} })
       ELSE IF actual = "NumLitInt" THEN literal(wanted_type)
       ELSE Res(add_node_error(h, "invalid cast from type"), invalid_instruction)

\* the assertions at the head of ir_get_casted_value
casted_value_asserted(h, value, expected_type) ==
    /\ value # 0
    /\ value # invalid_instruction
    /\ expected_type # "invalid"
    /\ h.insts[value].type_entry \notin {"null", "invalid"}

\* expected_type "null" is the nullptr of a caller with no expectation
ir_get_casted_value(h, value, expected_type) ==
    IF ~casted_value_asserted(h, value, expected_type)
    THEN Res(assert(h, FALSE), invalid_instruction)
    ELSE IF expected_type = "null" THEN Res(h, value)
    ELSE IF expected_type = h.insts[value].type_entry THEN Res(h, value)
    ELSE IF type_id(h.insts[value].type_entry) = "Unreachable" THEN Res(h, value)
    ELSE Only({ CASE match.r = "No" ->
                       Res(add_node_error(match.h, "expected type, found"),
                           invalid_instruction)
                  [] match.r = "Yes" -> ir_analyze_cast(match.h, value, expected_type, value)
                  [] match.r = "ReportedError" -> Res(match.h, invalid_instruction)
                : match \in {ir_types_match_with_implicit_cast(
                                 h, expected_type, h.insts[value].type_entry, value)} })

\* the pointee of a pointer known at compile time
ir_deref_pointee(h, ptr) == h.ira.mem_slot_list[const_ptr_pointee(h.insts[ptr].static_value)]

\* the test of ir_get_deref for a load evaluated at compile time
ir_deref_is_static(h, ptr) ==
    /\ h.insts[ptr].static_value.special # "Runtime"
    /\ ir_deref_pointee(h, ptr).special # "Runtime"

ir_get_deref(h, source_instruction, ptr) ==
    IF type_id(h.insts[ptr].type_entry) = "Invalid" THEN Res(h, invalid_instruction)
    ELSE IF type_id(h.insts[ptr].type_entry) # "Pointer"
    THEN Res(add_node_error(h, "attempt to dereference non pointer type"),
             invalid_instruction)
    ELSE IF ir_deref_is_static(h, ptr)
    THEN Res([ir_create_const(h, "new_irb", pointer_child_type(h.insts[ptr].type_entry))
                 EXCEPT !.insts[NextInst(h)].static_value = ir_deref_pointee(h, ptr)],
             NextInst(h))
    ELSE Res([ir_build_load_ptr(h, "new_irb", ptr) EXCEPT
                 !.insts[NextInst(h)].type_entry =
                     pointer_child_type(h.insts[ptr].type_entry)],
             NextInst(h))

\* r is <<ok, out>>
ir_resolve_bool(h, value) ==
    IF type_id(h.insts[value].type_entry) = "Invalid" THEN Res(h, <<FALSE, FALSE>>)
    ELSE Only({ IF type_id(casted_value.h.insts[casted_value.r].type_entry) = "Invalid"
                THEN Res(casted_value.h, <<FALSE, FALSE>>)
                ELSE Only({ IF ~const_val.r THEN Res(const_val.h, <<FALSE, FALSE>>)
                            ELSE Res(const_val.h,
                                     <<TRUE,
                                       const_val.h.insts[casted_value.r].static_value.x_bool>>)
                            : const_val \in {ir_resolve_const(casted_value.h,
                                                              casted_value.r)} })
                : casted_value \in {ir_get_casted_value(h, value, "bool")} })

\* ------------------------------------------------- instruction analyses
ir_analyze_instruction_return(h, return_instruction) ==
    LET value == h.insts[h.insts[return_instruction].op1].other
    IN IF type_id(h.insts[value].type_entry) = "Invalid" THEN ir_unreach_error(h)
       ELSE Only({ IF casted_value.r = invalid_instruction
                   THEN ir_unreach_error(casted_value.h)
                   ELSE Only({ ir_finish_anal(built, "unreachable")
                               : built \in {ir_build_return_from(
                                                casted_value.h, "new_irb",
                                                return_instruction, casted_value.r)} })
                   : casted_value \in
                         {ir_get_casted_value(
                              [h EXCEPT !.ira.implicit_return_type_list = Append(@, value)],
                              value, h.ira.explicit_return_type)} })

ir_analyze_instruction_const(h, const_instruction) ==
    Res([ir_build_const_from(h, const_instruction) EXCEPT
            !.insts[NextInst(h)].static_value = h.insts[const_instruction].static_value],
        h.insts[const_instruction].type_entry)

\* const_values_equal on the value kinds of the model
const_values_equal(a, b, type_entry) ==
    CASE type_id(type_entry) = "Bool" -> a.x_bool = b.x_bool
      [] type_id(type_entry) = "MetaType" -> a.x_type = b.x_type
      [] type_id(type_entry) = "Void" -> TRUE
      [] type_id(type_entry) \in {"Int", "NumLitInt", "Float"} -> a.x_bignum = b.x_bignum
      [] OTHER -> a.base_ptr = b.base_ptr /\ a.index = b.index

bignum_cmp(op_id, a, b) ==
    CASE op_id = "CmpEq" -> a = b
      [] op_id = "CmpLessThan" -> a < b

\* the switch of ir_analyze_bin_op_cmp on the resolved type
cmp_operator_allowed(resolved_type, op_id) ==
    CASE type_id(resolved_type) \in {"NumLitInt", "Int", "Float"} -> TRUE
      [] type_id(resolved_type) \in {"Bool", "MetaType", "Void", "Pointer"} ->
            op_id = "CmpEq"
      [] OTHER -> FALSE

\* the answer of a comparison evaluated at compile time
cmp_answer(op1_val, op2_val, op_id, resolved_type) ==
    IF type_id(resolved_type) \in {"NumLitInt", "Int", "Float"}
    THEN bignum_cmp(op_id, op1_val.x_bignum, op2_val.x_bignum)
    ELSE const_values_equal(op1_val, op2_val, resolved_type)

\* the test of the binary operations for operands known at compile time
bin_op_is_static(h, casted_op1, casted_op2) ==
    /\ h.insts[casted_op1].static_value.special # "Runtime"
    /\ h.insts[casted_op2].static_value.special # "Runtime"

ir_analyze_bin_op_cmp(h, bin_op_instruction) ==
    LET op1 == h.insts[h.insts[bin_op_instruction].op1].other
        op2 == h.insts[h.insts[bin_op_instruction].op2].other
        op_id == h.insts[bin_op_instruction].op_id
    IN Only({
        IF type_id(resolved_type.r) = "Invalid" THEN resolved_type
        ELSE IF ~cmp_operator_allowed(resolved_type.r, op_id)
        THEN Res(add_node_error(resolved_type.h, "operator not allowed for type"),
                 "invalid")
        ELSE Only({
            IF casted_op1.r = invalid_instruction THEN Res(casted_op1.h, "invalid")
            ELSE Only({
                IF casted_op2.r = invalid_instruction THEN Res(casted_op2.h, "invalid")
                ELSE IF bin_op_is_static(casted_op2.h, casted_op1.r, casted_op2.r)
                THEN Res([ir_build_const_from(casted_op2.h, bin_op_instruction) EXCEPT
                             !.insts[NextInst(casted_op2.h)].static_value.x_bool =
                                 cmp_answer(casted_op2.h.insts[casted_op1.r].static_value,
                                            casted_op2.h.insts[casted_op2.r].static_value,
                                            op_id, resolved_type.r)],
                         "bool")
                ELSE Res(ir_build_bin_op_from(casted_op2.h, "new_irb", bin_op_instruction,
                                              op_id, casted_op1.r, casted_op2.r),
                         "bool")
                : casted_op2 \in {ir_get_casted_value(casted_op1.h, op2,
                                                      resolved_type.r)} })
            : casted_op1 \in {ir_get_casted_value(resolved_type.h, op1,
                                                  resolved_type.r)} })
        : resolved_type \in {ir_resolve_peer_types(h, <<op1, op2>>)} })

\* the arithmetic of the big-number library: the exact result, and the
\* overflow flag, raised when the magnitude of the result is beyond the widest
\* unsigned integer or the divisor is zero
bignum_fn(fn, op1, op2) ==
    LET magnitude(n) == IF n < 0 THEN -n ELSE n
        sign(n) == IF n < 0 THEN -1 ELSE 1
        exact == CASE fn = "bignum_add" -> op1 + op2
                   [] fn = "bignum_sub" -> op1 - op2
                   [] fn = "bignum_mul" -> op1 * op2
                   [] fn = "bignum_div" ->
                         IF op2 = 0 THEN 0
                         ELSE sign(op1) * sign(op2) * (magnitude(op1) \div magnitude(op2))
                   [] fn = "bignum_mod" ->
                         IF op2 = 0 THEN 0 ELSE sign(op1) * (magnitude(op1) % magnitude(op2))
                   [] fn = "bignum_shl" -> op1 * (2 ^ op2)
                   [] fn = "bignum_shr" -> sign(op1) * (magnitude(op1) \div (2 ^ op2))
    IN [overflow |-> \/ fn \in {"bignum_div", "bignum_mod"} /\ op2 = 0
                     \/ magnitude(exact) > UINT64_MAX,
        value |-> exact]

max_unsigned_val(type_entry) ==
    CASE type_table[type_entry].bit_count = 16 -> 65535
      [] type_table[type_entry].bit_count = 8 -> 255

\* err is the code returned, "none" for 0; the magnitude x_uint of the result is
\* an unsigned integer, whose arithmetic is modulo UINT64_MAX + 1
ir_eval_bignum(op1_val, op2_val, out_val, fn, type, wrapping_op) ==
    LET computed == bignum_fn(fn, op1_val.x_bignum, op2_val.x_bignum)
        is_negative == computed.value < 0
        x_uint == IF is_negative THEN -computed.value ELSE computed.value
        complement == (max_unsigned_val(type) - x_uint + 1) % (UINT64_MAX + 1)
        bignum_truncate == x_uint % (2 ^ type_table[type].bit_count)
        wrapped == IF type_table[type].is_signed
                   THEN IF is_negative THEN complement ELSE -complement
                   ELSE IF is_negative THEN complement
                   ELSE bignum_truncate
        fits == type_id(type) # "Int"
                \/ bignum_fits_in_bits(computed.value, type_table[type].bit_count,
                                       type_table[type].is_signed)
    IN IF computed.overflow THEN [err |-> "ErrorOverflow", out_val |-> out_val]
       ELSE IF ~fits /\ ~wrapping_op
       THEN [err |-> "ErrorOverflow", out_val |-> [out_val EXCEPT !.x_bignum = computed.value]]
       ELSE [err |-> "none",
             out_val |-> [out_val EXCEPT !.x_bignum = IF fits THEN computed.value ELSE wrapped,
                                         !.special = "Static"]]

ir_eval_math_op(op1_val, op1_type, op_id, op2_val, op2_type, out_val) ==
    CASE op_id = "BitShiftLeft" ->
             ir_eval_bignum(op1_val, op2_val, out_val, "bignum_shl", op1_type, FALSE)
      [] op_id = "BitShiftLeftWrap" ->
             ir_eval_bignum(op1_val, op2_val, out_val, "bignum_shl", op1_type, TRUE)
      [] op_id = "BitShiftRight" ->
             ir_eval_bignum(op1_val, op2_val, out_val, "bignum_shr", op1_type, FALSE)
      [] op_id = "Add" ->
             ir_eval_bignum(op1_val, op2_val, out_val, "bignum_add", op1_type, FALSE)
      [] op_id = "AddWrap" ->
             ir_eval_bignum(op1_val, op2_val, out_val, "bignum_add", op1_type, TRUE)
      [] op_id = "Sub" ->
             ir_eval_bignum(op1_val, op2_val, out_val, "bignum_sub", op1_type, FALSE)
      [] op_id = "SubWrap" ->
             ir_eval_bignum(op1_val, op2_val, out_val, "bignum_sub", op1_type, TRUE)
      [] op_id = "Mult" ->
             ir_eval_bignum(op1_val, op2_val, out_val, "bignum_mul", op1_type, FALSE)
      [] op_id = "MultWrap" ->
             ir_eval_bignum(op1_val, op2_val, out_val, "bignum_mul", op1_type, TRUE)
      [] op_id = "Div" ->
             ir_eval_bignum(op1_val, op2_val, out_val, "bignum_div", op1_type, FALSE)
      [] op_id = "Mod" ->
             ir_eval_bignum(op1_val, op2_val, out_val, "bignum_mod", op1_type, FALSE)

ir_analyze_bin_op_math(h, bin_op_instruction) ==
    LET op1 == h.insts[h.insts[bin_op_instruction].op1].other
        op2 == h.insts[h.insts[bin_op_instruction].op2].other
        op_id == h.insts[bin_op_instruction].op_id
        evaluated(g, casted_op1, casted_op2, resolved_type) ==
            ir_eval_math_op(g.insts[casted_op1].static_value, resolved_type, op_id,
                            g.insts[casted_op2].static_value, resolved_type,
                            g.insts[bin_op_instruction].static_value)
        folded(g, eval) ==
            [g EXCEPT !.insts[bin_op_instruction].other = bin_op_instruction,
                      !.insts[bin_op_instruction].static_value = eval.out_val]
    IN Only({
        IF type_id(resolved_type.r) = "Invalid" THEN resolved_type
        ELSE IF ~(\/ type_id(resolved_type.r) \in {"Int", "NumLitInt"}
                  \/ /\ type_id(resolved_type.r) = "Float"
                     /\ op_id \in {"Add", "Sub", "Mult", "Div", "Mod"})
        THEN Res(add_node_error(resolved_type.h, "invalid operands to binary expression"),
                 "invalid")
        ELSE Only({
            IF casted_op1.r = invalid_instruction THEN Res(casted_op1.h, "invalid")
            ELSE Only({
                IF casted_op2.r = invalid_instruction THEN Res(casted_op2.h, "invalid")
                ELSE IF bin_op_is_static(casted_op2.h, casted_op1.r, casted_op2.r)
                THEN Only({
                    IF eval.err = "ErrorDivByZero"
                    THEN Res(add_node_error(folded(casted_op2.h, eval),
                                            "division by zero is undefined"), "invalid")
                    ELSE IF eval.err = "ErrorOverflow"
                    THEN Res(add_node_error(folded(casted_op2.h, eval),
                                            "value cannot be represented in any integer type"),
                             "invalid")
                    ELSE Only({ Res(fits.h, resolved_type.r)
                                : fits \in {ir_num_lit_fits_in_other_type(
                                                folded(casted_op2.h, eval),
                                                bin_op_instruction, resolved_type.r)} })
                    : eval \in {evaluated(casted_op2.h, casted_op1.r, casted_op2.r,
                                          resolved_type.r)} })
                ELSE Res(ir_build_bin_op_from(casted_op2.h, "new_irb", bin_op_instruction,
                                              op_id, casted_op1.r, casted_op2.r),
                         resolved_type.r)
                : casted_op2 \in {ir_get_casted_value(casted_op1.h, op2,
                                                      resolved_type.r)} })
            : casted_op1 \in {ir_get_casted_value(resolved_type.h, op1,
                                                  resolved_type.r)} })
        : resolved_type \in {ir_resolve_peer_types(h, <<op1, op2>>)} })

ir_analyze_instruction_bin_op(h, bin_op_instruction) ==
    IF h.insts[bin_op_instruction].op_id \in {"CmpEq", "CmpLessThan"}
    THEN ir_analyze_bin_op_cmp(h, bin_op_instruction)
    ELSE ir_analyze_bin_op_math(h, bin_op_instruction)

\* SIZE_MAX + 1 is the modulus of size_t arithmetic
ir_analyze_instruction_elem_ptr(h, elem_ptr_instruction) ==
    LET array_ptr == h.insts[h.insts[elem_ptr_instruction].op1].other
        elem_index == h.insts[h.insts[elem_ptr_instruction].op2].other
        ptr_type == h.insts[array_ptr].type_entry
        array_type == pointer_child_type(ptr_type)
        return_type == IF type_id(array_type) = "Array"
                       THEN get_pointer_to_type(type_table[array_type].child_type, FALSE)
                       ELSE array_type
        array_ptr_val(g) == g.ira.mem_slot_list[const_ptr_pointee(g.insts[array_ptr].static_value)]
        offset(g) == array_ptr_val(g).index
        new_index(g, index) == IF offset(g) = SIZE_MAX THEN SIZE_MAX
                               ELSE (offset(g) + index) % (SIZE_MAX + 1)
        mem_size(g) == IF offset(g) = SIZE_MAX THEN 1
                       ELSE g.ira.mem_slot_list[array_ptr_val(g).base_ptr].x_array_size
        folded(g, index) ==
            IF type_id(array_type) = "Array"
            THEN Res([ir_build_const_from(g, elem_ptr_instruction) EXCEPT
                         !.insts[NextInst(g)].static_value.base_ptr =
                             const_ptr_pointee(g.insts[array_ptr].static_value),
                         !.insts[NextInst(g)].static_value.index = index],
                     return_type)
            ELSE IF new_index(g, index) >= mem_size(g)
            THEN Res(add_node_error(ir_build_const_from(g, elem_ptr_instruction),
                                    "index outside pointer of size"),
                     "invalid")
            ELSE Res([ir_build_const_from(g, elem_ptr_instruction) EXCEPT
                         !.insts[NextInst(g)].static_value.base_ptr =
                             array_ptr_val(g).base_ptr,
                         !.insts[NextInst(g)].static_value.index = new_index(g, index)],
                     return_type)
        built(g, index, safety_check_on) ==
            Res(ir_link_new_instruction(
                    ir_build_elem_ptr(g, "new_irb", array_ptr, index, safety_check_on),
                    NextInst(g), elem_ptr_instruction),
                return_type)
    IN IF type_id(ptr_type) = "Invalid" THEN Res(h, "invalid")
       ELSE IF type_id(h.insts[elem_index].type_entry) = "Invalid" THEN Res(h, "invalid")
       ELSE IF type_id(ptr_type) # "Pointer" THEN Res(assert(h, FALSE), "invalid")
       ELSE IF type_id(array_type) = "Invalid" THEN Res(h, array_type)
       ELSE IF type_id(array_type) \notin {"Array", "Pointer"}
       THEN Res(add_node_error(h, "array access of non-array type"), "invalid")
       ELSE Only({
           IF casted_elem_index.r = invalid_instruction
           THEN Res(casted_elem_index.h, "invalid")
           ELSE IF casted_elem_index.h.insts[casted_elem_index.r].static_value.special
                       = "Runtime"
           THEN built(casted_elem_index.h, casted_elem_index.r, TRUE)
           ELSE IF /\ type_id(array_type) = "Array"
                   /\ casted_elem_index.h.insts[casted_elem_index.r].static_value.x_bignum
                          >= type_table[array_type].len
           THEN Res(add_node_error(casted_elem_index.h, "index outside array of size"),
                    "invalid")
           ELSE IF /\ h.insts[array_ptr].static_value.special # "Runtime"
                   /\ const_ptr_pointee(h.insts[array_ptr].static_value) # 0
                   /\ array_ptr_val(casted_elem_index.h).special # "Runtime"
           THEN folded(casted_elem_index.h,
                       casted_elem_index.h.insts[casted_elem_index.r].static_value.x_bignum)
           ELSE built(casted_elem_index.h, casted_elem_index.r,
                      type_id(array_type) # "Array")
           : casted_elem_index \in
                 {ir_get_casted_value(
                      IF type_id(array_type) = "Array" /\ type_table[array_type].len = 0
                      THEN add_node_error(h, "index 0 outside array of size 0")
                      ELSE h,
                      elem_index, "usize")} })

\* the switch of ir_analyze_instruction_decl_var on the type of the initial value
decl_var_message(init) ==
    CASE type_id(init.type_entry) = "NumLitInt" /\ init.static_value.special = "Runtime" ->
            "unable to infer variable type"
      [] type_id(init.type_entry) = "Unreachable" -> "variable of type not allowed"
      [] type_id(init.type_entry) = "MetaType" /\ init.static_value.special = "Runtime" ->
            "variable of type must be constant"
      [] OTHER -> ""

\* a variant that types the variable by its initial value whatever was reported
decl_var_init_type(init) == init.type_entry

decl_var_result_type(init) ==
    IF decl_var_message(init) # "" \/ type_id(init.type_entry) = "Invalid" THEN "invalid"
    ELSE init.type_entry

\* the write of the initial value to the memory slot of the variable
ir_init_slot(h, var, value) ==
    IF h.vars[var].mem_slot_index # SIZE_MAX
    THEN [h EXCEPT !.ira.mem_slot_list[mem_slot_addr(h.vars[var].mem_slot_index)] = value]
    ELSE h

\* declarations of the model carry no type expression (var_type is nullptr)
ir_analyze_instruction_decl_var(h, decl_var_instruction) ==
    LET var == h.insts[decl_var_instruction].var
        init_value == h.insts[h.insts[decl_var_instruction].op1].other
    IN IF type_id(h.insts[init_value].type_entry) = "Invalid"
       THEN Res([h EXCEPT !.vars[var].type = "invalid"], "invalid")
       ELSE Only({
           Only({ Res(ir_build_var_decl_from(stored, "new_irb", decl_var_instruction, var,
                                             0, casted_init_value.r),
                      "void")
                  : stored \in
                        {ir_init_slot(
                             [(IF decl_var_message(
                                      casted_init_value.h.insts[casted_init_value.r]) # ""
                               THEN add_node_error(
                                        casted_init_value.h,
                                        decl_var_message(
                                            casted_init_value.h.insts[casted_init_value.r]))
                               ELSE casted_init_value.h)
                                 EXCEPT !.vars[var].type =
                                     decl_var_result_type(
                                         casted_init_value.h.insts[casted_init_value.r])],
                             var,
                             casted_init_value.h.insts[casted_init_value.r].static_value)} })
           : casted_init_value \in
                 {ir_get_casted_value([h EXCEPT !.vars[var].ref_count = 0], init_value,
                                      "null")} })

\* the memory slot ir_analyze_var_ptr finds for a variable known at compile time
var_is_static(h, var) ==
    /\ h.vars[var].mem_slot_index # SIZE_MAX
    /\ h.ira.mem_slot_list[mem_slot_addr(h.vars[var].mem_slot_index)].special # "Runtime"

ir_analyze_var_ptr(h, instruction, var) ==
    IF type_id(h.vars[var].type) = "Invalid"
    THEN Res(assert(h, h.vars[var].type # "null"), h.vars[var].type)
    ELSE IF var_is_static(h, var)
    THEN ir_analyze_const_ptr(assert(h, h.vars[var].type # "null"), instruction,
                              mem_slot_addr(h.vars[var].mem_slot_index), h.vars[var].type)
    ELSE Res(ir_build_var_ptr_from(assert(h, h.vars[var].type # "null"), "new_irb",
                                   instruction, var),
             get_pointer_to_type(h.vars[var].type, FALSE))

ir_analyze_instruction_var_ptr(h, var_ptr_instruction) ==
    ir_analyze_var_ptr(h, var_ptr_instruction, h.insts[var_ptr_instruction].var)

\* the unwrapping of the maybe behind a pointer
ir_analyze_instruction_unwrap_maybe(h, unwrap_maybe_instruction) ==
    LET value == h.insts[h.insts[unwrap_maybe_instruction].op1].other
        ptr_type == h.insts[value].type_entry
        type_entry == pointer_child_type(ptr_type)
        result_type == get_pointer_to_type(type_table[type_entry].child_type, FALSE)
        maybe_val == h.insts[value].static_value.base_ptr
    IN IF type_id(ptr_type) = "Invalid" THEN Res(h, "invalid")
       ELSE IF type_id(ptr_type) # "Pointer" THEN Res(assert(h, FALSE), "invalid")
       ELSE IF type_id(type_entry) = "Invalid" THEN Res(h, "invalid")
       ELSE IF type_id(type_entry) # "Maybe"
       THEN Res(add_node_error(h, "expected nullable type, found"), "invalid")
       ELSE IF h.insts[value].static_value.special # "Runtime"
               /\ h.insts[value].static_value.index # SIZE_MAX
       THEN Res(assert(h, FALSE), "invalid")
       ELSE IF /\ h.insts[value].static_value.special # "Runtime"
               /\ h.ira.mem_slot_list[maybe_val].special # "Runtime"
       THEN Res([ir_build_const_from(h, unwrap_maybe_instruction) EXCEPT
                    !.insts[NextInst(h)].static_value.base_ptr = maybe_val,
                    !.insts[NextInst(h)].static_value.index = SIZE_MAX],
                result_type)
       ELSE Res(ir_link_new_instruction(
                    ir_ref_instruction(
                        [ir_build_instruction(h, "new_irb", "UnwrapMaybe") EXCEPT
                            !.insts[NextInst(h)].op1 = value,
                            !.insts[NextInst(h)].safety_check_on =
                                h.insts[unwrap_maybe_instruction].safety_check_on],
                        value),
                    NextInst(h), unwrap_maybe_instruction),
                result_type)

ir_analyze_instruction_load_ptr(h, load_ptr_instruction) ==
    Only({ Res(assert(ir_link_new_instruction(deref.h, deref.r, load_ptr_instruction),
                      deref.h.insts[deref.r].type_entry # "null"),
               deref.h.insts[deref.r].type_entry)
           : deref \in {ir_get_deref(h, load_ptr_instruction,
                                      h.insts[h.insts[load_ptr_instruction].op1].other)} })

\* the compile-time store: the slot behind ptr takes the value
\* a variant of the store that leaves the slot as it was
ir_store_dropped(h, dest_val, value) == h

ir_store_static(h, dest_val, value) ==
    [h EXCEPT !.ira.mem_slot_list[dest_val] = value]

\* the demotion of a slot from known at compile time to known at runtime
ir_demote_slot(h, mem_slot) ==
    [h EXCEPT !.ira.mem_slot_list[mem_slot].special = "Runtime"]

\* a variant of the test that leaves out the look at the slot
store_operands_static(h, ptr, casted_value) ==
    /\ h.insts[ptr].static_value.special # "Runtime"
    /\ h.insts[casted_value].static_value.special # "Runtime"

\* the test of ir_analyze_instruction_store_ptr for a store done at compile time
store_is_static(h, ptr, casted_value) ==
    /\ h.insts[ptr].static_value.special # "Runtime"
    /\ h.insts[casted_value].static_value.special # "Runtime"
    /\ h.ira.mem_slot_list[const_ptr_pointee(h.insts[ptr].static_value)].special # "Runtime"

\* the location becomes known at runtime only: a var ptr of its own, NextInst(h),
\* and the store through it
ir_store_demoting(h, ptr, casted_value) ==
    Only({ ir_build_store_ptr(
               [slot_demoted EXCEPT !.insts[NextInst(h)].type_entry = h.insts[ptr].type_entry],
               "new_irb", NextInst(h), casted_value)
           : slot_demoted \in
                 {ir_demote_slot(
                      assert(ir_build_var_ptr(
                                 [h EXCEPT !.insts[ptr].static_value.special = "Runtime"],
                                 "new_irb", h.insts[ptr].var),
                             h.insts[ptr].id = "VarPtr"
                                 /\ h.vars[h.insts[ptr].var].mem_slot_index # SIZE_MAX),
                      mem_slot_addr(h.vars[h.insts[ptr].var].mem_slot_index))} })

ir_analyze_instruction_store_ptr(h, store_ptr_instruction) ==
    LET ptr == h.insts[h.insts[store_ptr_instruction].op1].other
        value == h.insts[h.insts[store_ptr_instruction].op2].other
    IN IF type_id(h.insts[ptr].type_entry) = "Invalid" THEN Res(h, h.insts[ptr].type_entry)
       ELSE IF type_id(h.insts[value].type_entry) = "Invalid"
       THEN Res(h, h.insts[value].type_entry)
       ELSE Only({
           IF casted_value.r = invalid_instruction THEN Res(casted_value.h, "invalid")
           ELSE IF store_is_static(casted_value.h, ptr, casted_value.r)
           THEN Only({ ir_analyze_void(stored, store_ptr_instruction)
                       : stored \in
                             {ir_store_static(
                                  casted_value.h,
                                  const_ptr_pointee(
                                      casted_value.h.insts[ptr].static_value),
                                  casted_value.h.insts[casted_value.r].static_value)} })
           ELSE IF casted_value.h.insts[ptr].static_value.special # "Runtime"
           THEN Only({ ir_analyze_void(stored, store_ptr_instruction)
                       : stored \in {ir_store_demoting(casted_value.h, ptr,
                                                       casted_value.r)} })
           ELSE Res(ir_build_store_ptr_from(casted_value.h, "new_irb",
                                            store_ptr_instruction, ptr, casted_value.r),
                    "void")
           : casted_value \in
                 {ir_get_casted_value(h, value,
                                      pointer_child_type(h.insts[ptr].type_entry))} })

ir_analyze_instruction_br(h, br_instruction) ==
    LET old_dest_block == h.insts[br_instruction].dest_blocks[1]
    IN IF h.insts[br_instruction].is_inline \/ h.bbs[old_dest_block].ref_count = 1
       THEN ir_inline_bb(h, br_instruction, old_dest_block)
       ELSE Only({ Only({ ir_finish_anal(built, "unreachable")
                          : built \in {ir_build_br_from(new_bb.h, "new_irb", br_instruction,
                                                        new_bb.r)} })
                   : new_bb \in {ir_get_new_bb(h, old_dest_block)} })

\* the test of ir_analyze_instruction_cond_br for evaluating the condition now
cond_br_is_static(cond_br, condition) ==
    cond_br.is_inline \/ condition.static_value.special # "Runtime"

\* the test of ir_analyze_instruction_cond_br for continuing in the chosen block
cond_br_inlines(cond_br, old_dest_block) ==
    cond_br.is_inline \/ old_dest_block.ref_count = 1

\* a variant of the choice that takes the then block for the else block
cond_br_swapped_block(cond_br, cond_is_true) ==
    IF cond_is_true THEN cond_br.dest_blocks[2] ELSE cond_br.dest_blocks[1]

\* the block the condition chooses
cond_br_dest_block(cond_br, cond_is_true) ==
    IF cond_is_true THEN cond_br.dest_blocks[1] ELSE cond_br.dest_blocks[2]

\* the tail of ir_analyze_instruction_cond_br: the branch is emitted
ir_analyze_instruction_cond_br_runtime(h, cond_br_instruction, condition) ==
    Only({
        IF casted_condition.r = invalid_instruction THEN ir_unreach_error(casted_condition.h)
        ELSE Only({
            Only({
                Only({ ir_finish_anal(built, "unreachable")
                       : built \in {ir_build_cond_br_from(
                                        new_else_block.h, "new_irb", cond_br_instruction,
                                        casted_condition.r, new_then_block.r,
                                        new_else_block.r, FALSE)} })
                : new_else_block \in
                      {ir_get_new_bb(new_then_block.h,
                                     h.insts[cond_br_instruction].dest_blocks[2])} })
            : new_then_block \in
                  {ir_get_new_bb(casted_condition.h,
                                 h.insts[cond_br_instruction].dest_blocks[1])} })
        : casted_condition \in {ir_get_casted_value(h, condition, "bool")} })

ir_analyze_instruction_cond_br(h, cond_br_instruction) ==
    LET condition == h.insts[h.insts[cond_br_instruction].op1].other
        cond_br == h.insts[cond_br_instruction]
    IN IF type_id(h.insts[condition].type_entry) = "Invalid" THEN ir_unreach_error(h)
       ELSE IF cond_br_is_static(cond_br, h.insts[condition])
       THEN Only({
           IF ~cond_is_true.r[1] THEN ir_unreach_error(cond_is_true.h)
           ELSE IF cond_br_inlines(
                       cond_br,
                       cond_is_true.h.bbs[cond_br_dest_block(cond_br, cond_is_true.r[2])])
           THEN ir_inline_bb(cond_is_true.h, cond_br_instruction,
                             cond_br_dest_block(cond_br, cond_is_true.r[2]))
           ELSE ir_analyze_instruction_cond_br_runtime(cond_is_true.h, cond_br_instruction,
                                                       condition)
           : cond_is_true \in {ir_resolve_bool(h, condition)} })
       ELSE ir_analyze_instruction_cond_br_runtime(h, cond_br_instruction, condition)

\* fold is the loop over the cases of a switch evaluated now, r "null" when no
\* case matched; cases is the loop that builds the cases of the emitted SwitchBr
ir_analyze_instruction_switch_br(h, switch_br_instruction) ==
    LET old == h.insts[switch_br_instruction]
        target_value == h.insts[old.op1].other
        target_type == h.insts[target_value].type_entry
        case_count == Len(old.case_values)
        is_inline == ir_should_inline(h, "new_irb") \/ old.is_inline
        RECURSIVE fold(_, _)
        fold(g, i) ==
            IF i > case_count THEN Res(g, "null")
            ELSE IF type_id(g.insts[g.insts[old.case_values[i]].other].type_entry) = "Invalid"
            THEN ir_unreach_error(g)
            ELSE Only({
                IF type_id(casted_case_value.h.insts[casted_case_value.r].type_entry)
                       = "Invalid"
                THEN ir_unreach_error(casted_case_value.h)
                ELSE Only({
                    IF ~case_val.r THEN ir_unreach_error(case_val.h)
                    ELSE IF const_values_equal(
                                h.insts[target_value].static_value,
                                case_val.h.insts[casted_case_value.r].static_value,
                                target_type)
                    THEN IF is_inline \/ case_val.h.bbs[old.dest_blocks[i]].ref_count = 1
                         THEN ir_inline_bb(case_val.h, switch_br_instruction,
                                           old.dest_blocks[i])
                         ELSE Only({ ir_finish_anal(
                                         ir_build_br_from(new_dest_block.h, "new_irb",
                                                          switch_br_instruction,
                                                          new_dest_block.r),
                                         "unreachable")
                                     : new_dest_block \in
                                           {ir_get_new_bb(case_val.h, old.dest_blocks[i])} })
                    ELSE fold(case_val.h, i + 1)
                    : case_val \in
                          {ir_resolve_const(casted_case_value.h, casted_case_value.r)} })
                : casted_case_value \in
                      {ir_get_casted_value(g, g.insts[old.case_values[i]].other,
                                           target_type)} })
        RECURSIVE cases(_, _, _, _)
        cases(g, i, values, blocks) ==
            IF i > case_count THEN Res(g, [values |-> values, blocks |-> blocks])
            ELSE Only({
                IF type_id(new_block.h.insts[new_block.h.insts[old.case_values[i]].other]
                               .type_entry) = "Invalid"
                THEN cases(new_block.h, i + 1, Append(values, invalid_instruction),
                           Append(blocks, new_block.r))
                ELSE Only({
                    IF type_id(casted_new_value.h.insts[casted_new_value.r].type_entry)
                           = "Invalid"
                    THEN cases(casted_new_value.h, i + 1,
                               Append(values, invalid_instruction),
                               Append(blocks, new_block.r))
                    ELSE Only({
                        cases(resolved.h, i + 1,
                              Append(values, IF resolved.r THEN casted_new_value.r
                                             ELSE invalid_instruction),
                              Append(blocks, new_block.r))
                        : resolved \in
                              {ir_resolve_const(casted_new_value.h, casted_new_value.r)} })
                    : casted_new_value \in
                          {ir_get_casted_value(
                               new_block.h,
                               new_block.h.insts[old.case_values[i]].other,
                               target_type)} })
                : new_block \in {ir_get_new_bb(g, old.dest_blocks[i])} })
        emitted(g) ==
            Only({ Only({ ir_finish_anal(
                              ir_link_new_instruction(
                                  ir_build_switch_br(new_else_block.h, "new_irb",
                                                     target_value, new_else_block.r,
                                                     new_cases.r.values, new_cases.r.blocks,
                                                     is_inline),
                                  NextInst(new_else_block.h), switch_br_instruction),
                              "unreachable")
                          : new_else_block \in {ir_get_new_bb(new_cases.h, old.else_block)} })
                   : new_cases \in {cases(g, 1, <<>>, <<>>)} })
    IN IF type_id(target_type) = "Invalid" THEN ir_unreach_error(h)
       ELSE IF is_inline \/ h.insts[target_value].static_value.special # "Runtime"
       THEN Only({ IF ~target_val.r THEN ir_unreach_error(target_val.h)
                   ELSE Only({ IF folded.r = "null" THEN emitted(folded.h) ELSE folded
                               : folded \in {fold(target_val.h, 1)} })
                   : target_val \in {ir_resolve_const(h, target_value)} })
       ELSE emitted(h)

ir_analyze_instruction_unreachable(h, unreachable_instruction) ==
    Only({ ir_finish_anal(built, "unreachable")
           : built \in {ir_build_unreachable_from(h, "new_irb", unreachable_instruction)} })

\* the first incoming edge of the Phi that comes from the block const_predecessor_bb;
\* 0 when there is none
phi_const_incoming(h, phi) ==
    IF \A i \in 1..Len(phi.dest_blocks) : phi.dest_blocks[i] # h.ira.const_predecessor_bb
    THEN 0
    ELSE CHOOSE i \in 1..Len(phi.dest_blocks) :
             /\ phi.dest_blocks[i] = h.ira.const_predecessor_bb
             /\ \A j \in 1..(i - 1) : phi.dest_blocks[j] # h.ira.const_predecessor_bb

RECURSIVE ir_phi_incoming(_, _, _, _, _)

\* the first loop of the Phi analysis: the incoming edges that are still referenced
ir_phi_incoming(h, phi, i, blocks, values) ==
    IF i > Len(phi.dest_blocks) THEN [ok |-> TRUE, blocks |-> blocks, values |-> values]
    ELSE IF h.bbs[phi.dest_blocks[i]].ref_count = 0
    THEN ir_phi_incoming(h, phi, i + 1, blocks, values)
    ELSE IF type_id(h.insts[h.insts[phi.incoming_values[i]].other].type_entry) = "Invalid"
    THEN [ok |-> FALSE, blocks |-> Append(blocks, h.bbs[phi.dest_blocks[i]].other),
          values |-> values]
    ELSE ir_phi_incoming(h, phi, i + 1,
                         Append(blocks, h.bbs[phi.dest_blocks[i]].other),
                         Append(values, h.insts[phi.incoming_values[i]].other))

RECURSIVE ir_phi_cast(_, _, _, _, _)

\* the second loop of the Phi analysis: the values are cast to the resolved type
ir_phi_cast(h, new_incoming_values, resolved_type, i, values) ==
    IF i > Len(new_incoming_values) THEN Res(h, values)
    ELSE Only({ ir_phi_cast(casted_value.h, new_incoming_values, resolved_type, i + 1,
                            Append(values, casted_value.r))
                : casted_value \in {ir_get_casted_value(h, new_incoming_values[i],
                                                        resolved_type)} })

ir_analyze_instruction_phi(h, phi_instruction) ==
    IF h.ira.const_predecessor_bb # 0
    THEN IF phi_const_incoming(h, h.insts[phi_instruction]) = 0
         THEN Res(assert(h, FALSE), "invalid")
         ELSE LET value == h.insts[h.insts[phi_instruction].incoming_values[
                               phi_const_incoming(h, h.insts[phi_instruction])]].other
              IN IF type_id(h.insts[value].type_entry) = "Invalid"
                 THEN Res(assert(h, h.insts[value].type_entry # "null"), "invalid")
                 ELSE IF h.insts[value].static_value.special # "Runtime"
                 THEN Res([ir_build_const_from(
                               assert(h, h.insts[value].type_entry # "null"),
                               phi_instruction)
                              EXCEPT !.insts[NextInst(h)].static_value =
                                  h.insts[value].static_value],
                          h.insts[value].type_entry)
                 ELSE Res([assert(h, h.insts[value].type_entry # "null") EXCEPT
                              !.insts[phi_instruction].other = value],
                          h.insts[value].type_entry)
    ELSE Only({
        IF \E i \in 1..Len(incoming.blocks) : incoming.blocks[i] = 0
        THEN Res(assert(h, FALSE), "invalid")
        ELSE IF ~incoming.ok THEN Res(h, "invalid")
        ELSE IF Len(incoming.blocks) = 0 THEN Res(assert(h, FALSE), "invalid")
        ELSE IF Len(incoming.blocks) = 1
        THEN Res([h EXCEPT !.insts[phi_instruction].other = incoming.values[1]],
                 h.insts[incoming.values[1]].type_entry)
        ELSE Only({
            IF type_id(resolved_type.r) = "Invalid" THEN resolved_type
            ELSE IF type_id(resolved_type.r) = "NumLitInt"
            THEN Res(add_node_error(resolved_type.h, "unable to infer expression type"),
                     "invalid")
            ELSE Only({ Res(ir_build_phi_from(casted.h, "new_irb", phi_instruction,
                                              incoming.blocks, casted.r),
                            resolved_type.r)
                        : casted \in {ir_phi_cast(resolved_type.h, incoming.values,
                                                  resolved_type.r, 1, <<>>)} })
            : resolved_type \in {ir_resolve_peer_types(h, incoming.values)} })
        : incoming \in {ir_phi_incoming(h, h.insts[phi_instruction], 1, <<>>, <<>>)} })

ir_analyze_instruction_nocast(h, instruction) ==
    CASE h.insts[instruction].id = "Return" -> ir_analyze_instruction_return(h, instruction)
      [] h.insts[instruction].id = "Const" -> ir_analyze_instruction_const(h, instruction)
      [] h.insts[instruction].id = "BinOp" -> ir_analyze_instruction_bin_op(h, instruction)
      [] h.insts[instruction].id = "DeclVar" -> ir_analyze_instruction_decl_var(h, instruction)
      [] h.insts[instruction].id = "LoadPtr" -> ir_analyze_instruction_load_ptr(h, instruction)
      [] h.insts[instruction].id = "StorePtr" -> ir_analyze_instruction_store_ptr(h, instruction)
      [] h.insts[instruction].id = "VarPtr" -> ir_analyze_instruction_var_ptr(h, instruction)
      [] h.insts[instruction].id = "UnwrapMaybe" ->
            ir_analyze_instruction_unwrap_maybe(h, instruction)
      [] h.insts[instruction].id = "ElemPtr" -> ir_analyze_instruction_elem_ptr(h, instruction)
      [] h.insts[instruction].id = "Br" -> ir_analyze_instruction_br(h, instruction)
      [] h.insts[instruction].id = "CondBr" -> ir_analyze_instruction_cond_br(h, instruction)
      [] h.insts[instruction].id = "SwitchBr" ->
            ir_analyze_instruction_switch_br(h, instruction)
      [] h.insts[instruction].id = "Unreachable" ->
            ir_analyze_instruction_unreachable(h, instruction)
      [] h.insts[instruction].id = "Phi" -> ir_analyze_instruction_phi(h, instruction)

\* The handlers read the other of their operands and what it points to: the
\* read of an other that is nullptr ends the run, a segmentation fault.
ir_analyze_instruction(h, instruction) ==
    LET old == h.insts[instruction]
        operands ==
            CASE old.id \in {"Return", "LoadPtr", "CondBr", "SwitchBr", "UnwrapMaybe",
                             "DeclVar"} ->
                    {old.op1}
              [] old.id \in {"BinOp", "StorePtr", "ElemPtr"} -> {old.op1, old.op2}
              [] old.id = "Phi" ->
                    { old.incoming_values[k] :
                          k \in { j \in DOMAIN old.incoming_values :
                                      IF h.ira.const_predecessor_bb # 0
                                      THEN old.dest_blocks[j] = h.ira.const_predecessor_bb
                                      ELSE h.bbs[old.dest_blocks[j]].ref_count # 0 } }
              [] OTHER -> {}
    IN
    IF \E operand \in operands : h.insts[operand].other = 0
    THEN Res([h EXCEPT !.aborted = TRUE], "invalid")
    ELSE
    Only({ IF typed.h.insts[instruction].other # 0
           THEN Res([typed.h EXCEPT
                        !.insts[instruction].type_entry = typed.r,
                        !.insts[typed.h.insts[instruction].other].type_entry = typed.r],
                    typed.r)
           ELSE Res([assert(typed.h, type_id(typed.r) \in {"Invalid", "Unreachable"}) EXCEPT
                        !.insts[instruction].type_entry = typed.r,
                        !.insts[instruction].other = instruction],
                    typed.r)
           : typed \in {ir_analyze_instruction_nocast(h, instruction)} })

\* a variant of the switch that takes a store for free of side effects
ir_has_side_effects_but_store(instruction) ==
    instruction.id \in {"Br", "CondBr", "SwitchBr", "DeclVar", "Call", "Return",
                        "Unreachable", "SetFnTest", "SetFnVisible", "SetDebugSafety",
                        "Import"}

\* the switch of ir_has_side_effects; every other kind of instruction has none
ir_has_side_effects(instruction) ==
    \/ instruction.id \in {"Br", "CondBr", "SwitchBr", "DeclVar", "StorePtr", "Call",
                           "Return", "Unreachable", "SetFnTest", "SetFnVisible",
                           "SetDebugSafety", "Import"}
    \/ instruction.id = "Asm" /\ instruction.has_side_effects

\* ------------------------------------------------------------ the programs
\* Function bodies handed to ir_gen; rt is a variable known at runtime only.
DeclRt == VariableDeclaration("rt", FALSE, FALSE, BoolLiteral(TRUE))

InlineVar(name, expr) == VariableDeclaration(name, FALSE, TRUE, expr)

Assign(name, expr) == BinOpExpr("Assign", Symbol(name), expr)

InlineWhile(condition, body) == WhileExpr(condition, NoNode, body, TRUE)

Programs ==
    << \* inline while (true) {}
       Block(<< InlineWhile(BoolLiteral(TRUE), Block(<<>>)) >>),
       \* inline var i = 0; inline while (i < 2) { i += 1 }
       Block(<< InlineVar("i", NumberLiteral(0)),
                InlineWhile(BinOpExpr("CmpLessThan", Symbol("i"), NumberLiteral(2)),
                            Block(<< BinOpExpr("AssignPlus", Symbol("i"), NumberLiteral(1)) >>)) >>),
       \* var rt = true; if (rt) { inline while (false) {}; false } else true
       Block(<< DeclRt,
                IfBoolExpr(Symbol("rt"),
                           Block(<< InlineWhile(BoolLiteral(FALSE), Block(<<>>)),
                                    BoolLiteral(FALSE) >>),
                           BoolLiteral(TRUE), FALSE) >>),
       \* var rt = true; inline var i = false; i = rt; i = false; i
       Block(<< DeclRt, InlineVar("i", BoolLiteral(FALSE)), Assign("i", Symbol("rt")),
                Assign("i", BoolLiteral(FALSE)), Symbol("i") >>),
       \* var rt = true; inline var n = 0;
       \* inline while (n < 2) { inline var i = false; i = rt; n += 1 }
       Block(<< DeclRt, InlineVar("n", NumberLiteral(0)),
                InlineWhile(BinOpExpr("CmpLessThan", Symbol("n"), NumberLiteral(2)),
                            Block(<< InlineVar("i", BoolLiteral(FALSE)),
                                     Assign("i", Symbol("rt")),
                                     BinOpExpr("AssignPlus", Symbol("n"), NumberLiteral(1)) >>)) >>),
       \* if (true) false else true
       Block(<< IfBoolExpr(BoolLiteral(TRUE), BoolLiteral(FALSE), BoolLiteral(TRUE), FALSE) >>),
       \* inline if (true) false else true
       Block(<< IfBoolExpr(BoolLiteral(TRUE), BoolLiteral(FALSE), BoolLiteral(TRUE), TRUE) >>),
       \* var rt = true; inline if (rt) false else true
       Block(<< DeclRt,
                IfBoolExpr(Symbol("rt"), BoolLiteral(FALSE), BoolLiteral(TRUE), TRUE) >>),
       \* var z = 5; var y = z; y
       Block(<< VariableDeclaration("z", FALSE, FALSE, NumberLiteral(5)),
                VariableDeclaration("y", FALSE, FALSE, Symbol("z")), Symbol("y") >>),
       \* if (1 == true) false else true
       Block(<< IfBoolExpr(BinOpExpr("CmpEq", NumberLiteral(1), BoolLiteral(TRUE)),
                           BoolLiteral(FALSE), BoolLiteral(TRUE), FALSE) >>),
       \* inline var i = false; i = (true < false); i
       Block(<< InlineVar("i", BoolLiteral(FALSE)),
                Assign("i", BinOpExpr("CmpLessThan", BoolLiteral(TRUE), BoolLiteral(FALSE))),
                Symbol("i") >>),
       \* var rt = true; if (rt) @unreachable() else true
       Block(<< DeclRt,
                IfBoolExpr(Symbol("rt"), BuiltinFnCall("unreachable"), BoolLiteral(TRUE),
                           FALSE) >>),
       \* var rt = true; while (rt) {}; return rt
       Block(<< DeclRt, WhileExpr(Symbol("rt"), NoNode, Block(<<>>), FALSE),
                ReturnExpr(Symbol("rt")) >>),
       \* var rt = true; inline var i = false; i = { i = rt; false }; i
       Block(<< DeclRt, InlineVar("i", BoolLiteral(FALSE)),
                Assign("i", Block(<< Assign("i", Symbol("rt")), BoolLiteral(FALSE) >>)),
                Symbol("i") >>),
       \* var w = 5; inline var n = 0; inline var z = 0;
       \* inline while (n < 2) { var y = z; y; z = w; n += 1 }
       Block(<< VariableDeclaration("w", FALSE, FALSE, NumberLiteral(5)),
                InlineVar("n", NumberLiteral(0)), InlineVar("z", NumberLiteral(0)),
                InlineWhile(BinOpExpr("CmpLessThan", Symbol("n"), NumberLiteral(2)),
                            Block(<< VariableDeclaration("y", FALSE, FALSE, Symbol("z")),
                                     Symbol("y"), Assign("z", Symbol("w")),
                                     BinOpExpr("AssignPlus", Symbol("n"), NumberLiteral(1)) >>)) >>),
       \* var rt = true; inline if (true) rt else true
       Block(<< DeclRt,
                IfBoolExpr(BoolLiteral(TRUE), Symbol("rt"), BoolLiteral(TRUE), TRUE) >>),
       \* var y = ((true < false) == true); return y
       Block(<< VariableDeclaration("y", FALSE, FALSE,
                                    BinOpExpr("CmpEq",
                                              BinOpExpr("CmpLessThan", BoolLiteral(TRUE),
                                                        BoolLiteral(FALSE)),
                                              BoolLiteral(TRUE))),
                ReturnExpr(Symbol("y")) >>),
       \* var rt = true; if (rt) (true < false) else true
       Block(<< DeclRt,
                IfBoolExpr(Symbol("rt"),
                           BinOpExpr("CmpLessThan", BoolLiteral(TRUE), BoolLiteral(FALSE)),
                           BoolLiteral(TRUE), FALSE) >>),
       \* var rt = true;
       \* if (false) (rt == (if (rt) true else false)) else (if (rt) true else false)
       Block(<< DeclRt,
                IfBoolExpr(BoolLiteral(FALSE),
                           BinOpExpr("CmpEq", Symbol("rt"),
                                     IfBoolExpr(Symbol("rt"), BoolLiteral(TRUE),
                                                BoolLiteral(FALSE), FALSE)),
                           IfBoolExpr(Symbol("rt"), BoolLiteral(TRUE), BoolLiteral(FALSE),
                                      FALSE),
                           FALSE) >>),
       \* var rt = true; inline var i = false; if (rt) { i = true } else {}; i
       Block(<< DeclRt, InlineVar("i", BoolLiteral(FALSE)),
                IfBoolExpr(Symbol("rt"), Block(<< Assign("i", BoolLiteral(TRUE)) >>),
                           Block(<<>>), FALSE),
                Symbol("i") >>),
       \* inline if (true) (inline if (true) false else true) else true
       Block(<< IfBoolExpr(BoolLiteral(TRUE),
                           IfBoolExpr(BoolLiteral(TRUE), BoolLiteral(FALSE), BoolLiteral(TRUE),
                                      TRUE),
                           BoolLiteral(TRUE), TRUE) >>)
    >>

\* ------------------------------------------------- executables written in IR
\* An executable can also be given as the list of its instructions, each with
\* the block it is appended to; x, y and values name earlier instructions by
\* their place in the list.  A Const stands for an expression the analysis has
\* a constant of that type for, as a cast of a literal leaves one.
Stmt == [op |-> "none", bb |-> 1, type |-> "null", value |-> ZeroValue, name |-> "",
         is_inline |-> FALSE, op_id |-> "none", x |-> 0, y |-> 0, blocks |-> <<>>,
         values |-> <<>>]

IrStatement(h, s) ==
    CASE s.op = "Const" ->
            [ir_build_instruction(h, "old_irb", "Const") EXCEPT
                !.insts[NextInst(h)].type_entry = s.type,
                !.insts[NextInst(h)].static_value = s.value]
      [] s.op = "DeclVar" ->
            ir_build_var_decl(ir_add_local_var(h, "old_irb", s.name, FALSE, FALSE, FALSE,
                                               s.is_inline),
                              "old_irb", Len(h.vars) + 1, 0, s.x + 1)
      [] s.op = "VarPtr" -> ir_build_var_ptr(h, "old_irb", find_variable(h, s.name))
      [] s.op = "LoadPtr" -> ir_build_load_ptr(h, "old_irb", s.x + 1)
      [] s.op = "UnwrapMaybe" ->
            ir_ref_instruction(
                [ir_build_instruction(h, "old_irb", "UnwrapMaybe") EXCEPT
                    !.insts[NextInst(h)].op1 = s.x + 1,
                    !.insts[NextInst(h)].safety_check_on = TRUE],
                s.x + 1)
      [] s.op = "ElemPtr" -> ir_build_elem_ptr(h, "old_irb", s.x + 1, s.y + 1, TRUE)
      [] s.op = "BinOp" -> ir_build_bin_op(h, "old_irb", s.op_id, s.x + 1, s.y + 1)
      [] s.op = "Return" -> ir_build_return(h, "old_irb", s.x + 1)
      [] s.op = "CondBr" ->
            ir_build_cond_br(h, "old_irb", s.x + 1, s.blocks[1], s.blocks[2], s.is_inline)
      [] s.op = "Br" -> ir_build_br(h, "old_irb", s.blocks[1], s.is_inline)
      [] s.op = "SwitchBr" ->
            ir_build_switch_br(h, "old_irb", s.x + 1, s.blocks[1],
                               [i \in DOMAIN s.values |-> s.values[i] + 1],
                               Tail(s.blocks), s.is_inline)
      [] s.op = "Phi" ->
            ir_build_phi(h, "old_irb", s.blocks, [i \in DOMAIN s.values |-> s.values[i] + 1])

RECURSIVE IrBlocks(_, _)
IrBlocks(h, n) ==
    IF n = 0 THEN [h EXCEPT !.old_irb.scopes = <<<<>>>>]
    ELSE ir_build_basic_block(IrBlocks(h, n - 1), "old_irb", "Block")

RECURSIVE IrStatements(_, _, _)
IrStatements(h, code, i) ==
    IF i > Len(code) THEN h
    ELSE Only({ IrStatements(g, code, i + 1)
                : g \in {IrStatement(ir_set_cursor_at_end(h, "old_irb", code[i].bb),
                                     code[i])} })

\* block 1 is the entry block, which ir_gen references
Executable(blocks, code) == IrStatements(ir_ref_bb(IrBlocks(ZeroHeap, blocks), 1), code, 1)

StaticInt(n) == [ZeroValue EXCEPT !.special = "Static", !.x_bignum = n]

Literal(n) == [Stmt EXCEPT !.op = "Const", !.type = "num_lit_int", !.value = StaticInt(n)]

Typed(type, n) == [Stmt EXCEPT !.op = "Const", !.type = type, !.value = StaticInt(n)]

Var(name, is_inline, x) ==
    [Stmt EXCEPT !.op = "DeclVar", !.name = name, !.is_inline = is_inline, !.x = x]

\* a constant of type ?u8: the maybe of the payloads given, << >> for null
MaybeOf(payloads) ==
    [Stmt EXCEPT !.op = "Const", !.type = "?u8",
                 !.value = [ZeroValue EXCEPT
                               !.special = "Static",
                               !.x_maybe = [i \in DOMAIN payloads |-> StaticInt(payloads[i])]]]

\* var m = <maybe>; return ??m, with m known at compile time or not
UnwrapCode(is_inline, payloads) ==
    << MaybeOf(payloads), Var("m", is_inline, 1),
       [Stmt EXCEPT !.op = "VarPtr", !.name = "m"],
       [Stmt EXCEPT !.op = "UnwrapMaybe", !.x = 3],
       [Stmt EXCEPT !.op = "LoadPtr", !.x = 4],
       [Stmt EXCEPT !.op = "Return", !.x = 5] >>

\* the payloads of the maybes unwrapped: none, 0 and 7
UnwrapPayloads == {<< >>, <<0>>, <<7>>}

\* an array of u8 of the given length
ArrayOf(len) ==
    [Stmt EXCEPT !.op = "Const",
                 !.type = CHOOSE t \in DOMAIN TypeTable :
                              TypeTable[t].id = "Array" /\ TypeTable[t].len = len,
                 !.value = [ZeroValue EXCEPT !.special = "Static", !.x_array_size = len]]

\* var a = <array of len>; inline var p = &a[o]; return &p[k]
\* with a known at compile time or not
ElemPtrCode(is_inline, len, o, k) ==
    << ArrayOf(len), Var("a", is_inline, 1),
       [Stmt EXCEPT !.op = "VarPtr", !.name = "a"], Literal(o),
       [Stmt EXCEPT !.op = "ElemPtr", !.x = 3, !.y = 4], Var("p", TRUE, 5),
       [Stmt EXCEPT !.op = "VarPtr", !.name = "p"], Literal(k),
       [Stmt EXCEPT !.op = "ElemPtr", !.x = 7, !.y = 8],
       [Stmt EXCEPT !.op = "Return", !.x = 9] >>

\* var rt = <u8 t>; switch (t or rt) { 1 => return 11, 2 => return 12, else => return 10 }
\* block 2 is the else block, block 3 the block of case 1, block 4 the block of
\* case 2 unless that case shares the else block
SwitchCode(is_static, is_inline, t, shared) ==
    << Typed("u8", t), Var("rt", FALSE, 1), [Stmt EXCEPT !.op = "VarPtr", !.name = "rt"],
       [Stmt EXCEPT !.op = "LoadPtr", !.x = 3], Literal(1), Literal(2),
       [Stmt EXCEPT !.op = "SwitchBr", !.x = IF is_static THEN 1 ELSE 4,
                    !.values = <<5, 6>>, !.blocks = <<2, 3, IF shared THEN 2 ELSE 4>>,
                    !.is_inline = is_inline],
       [Typed("u8", 10) EXCEPT !.bb = 2], [Stmt EXCEPT !.op = "Return", !.x = 8, !.bb = 2],
       [Typed("u8", 11) EXCEPT !.bb = 3], [Stmt EXCEPT !.op = "Return", !.x = 10, !.bb = 3],
       [Typed("u8", 12) EXCEPT !.bb = 4], [Stmt EXCEPT !.op = "Return", !.x = 12, !.bb = 4] >>

\* var rt = true; block 1 branches on rt to the blocks 2 and 3; the blocks 2, 3
\* and 4 branch to block 5, which returns the Phi of their values; no branch
\* goes to block 4, and with two entries the Phi does not list it
PhiCode(entries, a, b, c) ==
    << [Stmt EXCEPT !.op = "Const", !.type = "bool", !.value = StaticBool(TRUE)],
       Var("rt", FALSE, 1), [Stmt EXCEPT !.op = "VarPtr", !.name = "rt"],
       [Stmt EXCEPT !.op = "LoadPtr", !.x = 3],
       [Stmt EXCEPT !.op = "CondBr", !.x = 4, !.blocks = <<2, 3>>],
       [a EXCEPT !.bb = 2], [Stmt EXCEPT !.op = "Br", !.blocks = <<5>>, !.bb = 2],
       [b EXCEPT !.bb = 3], [Stmt EXCEPT !.op = "Br", !.blocks = <<5>>, !.bb = 3],
       [c EXCEPT !.bb = 4], [Stmt EXCEPT !.op = "Br", !.blocks = <<5>>, !.bb = 4],
       [Stmt EXCEPT !.op = "Phi", !.blocks = SubSeq(<<2, 3, 4>>, 1, entries),
                    !.values = SubSeq(<<6, 8, 10>>, 1, entries), !.bb = 5],
       [Stmt EXCEPT !.op = "Return", !.x = 12, !.bb = 5] >>

\* var rt = <u8 0>; block 1 switches on rt to the blocks 2, 3 and 4, which hold
\* a constant of the types a, b and c and branch to block 5; block 5 returns
\* the Phi of the three
PeerCode(a, b, c) ==
    << Typed("u8", 0), Var("rt", FALSE, 1), [Stmt EXCEPT !.op = "VarPtr", !.name = "rt"],
       [Stmt EXCEPT !.op = "LoadPtr", !.x = 3], Literal(1), Literal(2),
       [Stmt EXCEPT !.op = "SwitchBr", !.x = 4, !.values = <<5, 6>>,
                    !.blocks = <<2, 3, 4>>],
       [Typed(a, 0) EXCEPT !.bb = 2], [Stmt EXCEPT !.op = "Br", !.blocks = <<5>>, !.bb = 2],
       [Typed(b, 0) EXCEPT !.bb = 3], [Stmt EXCEPT !.op = "Br", !.blocks = <<5>>, !.bb = 3],
       [Typed(c, 0) EXCEPT !.bb = 4], [Stmt EXCEPT !.op = "Br", !.blocks = <<5>>, !.bb = 4],
       [Stmt EXCEPT !.op = "Phi", !.blocks = <<2, 3, 4>>, !.values = <<8, 10, 12>>,
                    !.bb = 5],
       [Stmt EXCEPT !.op = "Return", !.x = 14, !.bb = 5] >>

\* var rt = true; block 1 branches on rt to the blocks 2 and 3; block 2 branches
\* to block 3, inline or not, and block 3 returns a constant
RejoinCode(is_inline) ==
    << [Stmt EXCEPT !.op = "Const", !.type = "bool", !.value = StaticBool(TRUE)],
       Var("rt", FALSE, 1), [Stmt EXCEPT !.op = "VarPtr", !.name = "rt"],
       [Stmt EXCEPT !.op = "LoadPtr", !.x = 3],
       [Stmt EXCEPT !.op = "CondBr", !.x = 4, !.blocks = <<2, 3>>],
       [Stmt EXCEPT !.op = "Br", !.blocks = <<3>>, !.is_inline = is_inline, !.bb = 2],
       [Typed("u8", 1) EXCEPT !.bb = 3], [Stmt EXCEPT !.op = "Return", !.x = 7, !.bb = 3] >>

\* the types of the operands handed to the resolution of peer types
PeerTypes == {"u8", "u16", "i8", "%u16"}

\* return <value>, and  var rt = <value>; return rt
CastCode(is_static, value) ==
    IF is_static THEN << value, [Stmt EXCEPT !.op = "Return", !.x = 1] >>
    ELSE << value, Var("rt", FALSE, 1), [Stmt EXCEPT !.op = "VarPtr", !.name = "rt"],
            [Stmt EXCEPT !.op = "LoadPtr", !.x = 3], [Stmt EXCEPT !.op = "Return", !.x = 4] >>

\* the values returned: literals, among them 300 and 2^24 + 1, and constants
\* of the sized types
CastValues ==
    { Literal(n) : n \in {-1, 7, 300, 16777217} }
    \cup { Typed(t, 7) : t \in {"u8", "i8", "u16", "f32"} }
    \cup { MaybeOf(<<7>>) }
    \cup { [Stmt EXCEPT !.op = "Const", !.type = "bool", !.value = StaticBool(TRUE)] }

\* return a <op> b, for two constants of a sized integer type
BinOpCode(op_id, type, a, b) ==
    << Typed(type, a), Typed(type, b),
       [Stmt EXCEPT !.op = "BinOp", !.op_id = op_id, !.x = 1, !.y = 2],
       [Stmt EXCEPT !.op = "Return", !.x = 3] >>

MathOps == {"Add", "AddWrap", "Sub", "SubWrap", "Mult", "MultWrap", "Div", "Mod"}

ShiftOps == {"BitShiftLeft", "BitShiftLeftWrap", "BitShiftRight"}

\* the operands tried, per type: zero, small and large values of the type
MathValues(type) == IF type = "u8" THEN {0, 3, 17, 200} ELSE {-100, 0, 3, 17, 100}

\* the shift amounts tried: within the 8 bits of the types, and beyond
ShiftAmounts == {0, 3, 9}

\* the indexes tried: the small ones, and the ones at the end of size_t
Indexes == 0..MaxArrayLen \cup {SIZE_MAX - 1, SIZE_MAX, SIZE_MAX + 1}

IrPrograms ==
    { [blocks |-> 1, code |-> ElemPtrCode(is_inline, len, o, k)]
      : is_inline \in BOOLEAN, len \in 1..MaxArrayLen, o \in 0..MaxArrayLen - 1,
        k \in Indexes }
    \cup
    { [blocks |-> 4, code |-> SwitchCode(is_static, is_inline, t, shared)]
      : is_static \in BOOLEAN, is_inline \in BOOLEAN, t \in 1..3, shared \in BOOLEAN }
    \cup
    { [blocks |-> 5, code |-> PhiCode(entries, Typed("u8", 1), Typed("u8", 2), Typed("u8", 3))]
      : entries \in 2..3 }
    \cup
    { [blocks |-> 5, code |-> PeerCode(a, b, c)] : a \in PeerTypes, b \in PeerTypes,
                                                  c \in PeerTypes }
    \cup
    { [blocks |-> 3, code |-> RejoinCode(is_inline)] : is_inline \in BOOLEAN }
    \cup
    { [blocks |-> 1, code |-> CastCode(is_static, value)]
      : is_static \in BOOLEAN, value \in CastValues }
    \cup
    { [blocks |-> 1, code |-> UnwrapCode(is_inline, payloads)]
      : is_inline \in BOOLEAN, payloads \in UnwrapPayloads }
    \cup
    UNION { { [blocks |-> 1, code |-> BinOpCode(op_id, type, a, b)]
              : op_id \in MathOps, a \in MathValues(type), b \in MathValues(type) }
            : type \in {"u8", "i8"} }
    \cup
    UNION { { [blocks |-> 1, code |-> BinOpCode(op_id, type, a, b)]
              : op_id \in ShiftOps, a \in MathValues(type), b \in ShiftAmounts }
            : type \in {"u8", "i8"} }

\* the return types the caller may expect; "null" is no expectation
ExpectedTypes == {"null", "void", "bool", "u8", "i8", "u16", "f32", "?u8", "%u16"}

\* --------------------------------------------------------- the state machine
NoStep == [instruction |-> 0, type |-> "null", skipped |-> FALSE]

\* the state in which ir_analyze is called on the executable of heap h
Analyzable(h) ==
    /\ ~h.old_irb.exec.invalid
    /\ insts = h.insts
    /\ bbs = h.bbs
    /\ vars = h.vars
    /\ old_irb = h.old_irb
    /\ new_irb = h.new_irb
    /\ ira = h.ira
    /\ errors = h.errors
    /\ aborted = h.aborted
    /\ type_table = TypeTable
    /\ fn_def_body = NoNode
    /\ pc = "begin"
    /\ step = NoStep
    /\ result = "null"
    /\ demoted = {}
    /\ written = <<>>

\* the executable ir_gen built for one of the programs, handed to ir_analyze
Init == \E i \in 1..Len(Programs) : Analyzable(ir_gen(ZeroHeap, Programs[i]))

SetHeap(h) ==
    /\ insts' = h.insts
    /\ bbs' = h.bbs
    /\ vars' = h.vars
    /\ old_irb' = h.old_irb
    /\ new_irb' = h.new_irb
    /\ ira' = h.ira
    /\ errors' = h.errors
    /\ aborted' = h.aborted

\* ir_analyze up to its loop
ir_analyze_setup(h, expected_type, quota) ==
    Only({ ir_start_bb([ir_ref_bb(new_entry_bb.h, new_entry_bb.r) EXCEPT
                           !.new_irb.current_basic_block = new_entry_bb.r,
                           !.ira.block_queue_index = 0],
                       h.old_irb.exec.basic_block_list[1], 0)
           : new_entry_bb \in
                 {ir_get_new_bb(
                      [h EXCEPT !.ira.explicit_return_type = expected_type,
                                !.new_irb.exec.backward_branch_quota = quota,
                                !.ira.mem_slot_list =
                                    [i \in 1..h.old_irb.exec.mem_slot_count |-> ZeroValue]],
                      h.old_irb.exec.basic_block_list[1])} })

IrAnalyzeBegin ==
    /\ pc = "begin"
    /\ \E expected_type \in ExpectedTypes, quota \in 0..MaxQuota :
          \E h \in {ir_analyze_setup(Heap, expected_type, quota)} : SetHeap(h)
    /\ pc' = "loop"
    /\ written' = ira'.mem_slot_list
    /\ UNCHANGED <<step, result, demoted, type_table, fn_def_body>>

\* the loop condition of ir_analyze
Running == pc = "loop" /\ ira.block_queue_index < Len(ira.old_bb_queue)

\* the instruction the loop of ir_analyze looks at
old_instruction == bbs[old_irb.current_basic_block].instruction_list[ira.instruction_index + 1]

is_dead_code(instruction) == instruction.ref_count = 0 /\ ~ir_has_side_effects(instruction)

\* the loop skips an instruction nothing refers to
SkipDeadCode ==
    /\ Running
    /\ is_dead_code(insts[old_instruction])
    /\ ira' = [ira EXCEPT !.instruction_index = @ + 1]
    /\ step' = [instruction |-> old_instruction, type |-> "null", skipped |-> TRUE]
    /\ UNCHANGED <<insts, bbs, vars, old_irb, new_irb, errors, aborted, pc, result, demoted,
                   written, type_table, fn_def_body>>

\* the slots a turn of the loop has demoted
SlotsDemoted(before, after) ==
    { s \in DOMAIN before : before[s].special # "Runtime" /\ after[s].special = "Runtime" }

\* the memory slot a declaration or a store that went through writes to, 0 for
\* none: the slot of the variable declared or of the variable pointed to
SlotWritten(h, instruction, type) ==
    LET written_var ==
            IF h.insts[instruction].id = "DeclVar" THEN h.insts[instruction].var
            ELSE IF h.insts[instruction].id = "StorePtr"
            THEN h.insts[h.insts[h.insts[instruction].op1].other].var
            ELSE 0
    IN IF type # "void" \/ written_var = 0 THEN 0
       ELSE IF h.vars[written_var].mem_slot_index = SIZE_MAX THEN 0
       ELSE mem_slot_addr(h.vars[written_var].mem_slot_index)

\* the value a declaration or a store writes
ValueWritten(h, instruction) ==
    IF h.insts[instruction].id = "DeclVar"
    THEN h.insts[h.insts[h.insts[instruction].op1].other].static_value
    ELSE h.insts[h.insts[h.insts[instruction].op2].other].static_value

\* one turn of the loop: the instruction is analysed, and the loop moves on
\* unless the instruction did its own control flow
AnalyzeInstruction ==
    /\ Running
    /\ ~is_dead_code(insts[old_instruction])
    /\ \E analyzed \in {ir_analyze_instruction(Heap, old_instruction)} :
          /\ SetHeap(IF type_id(analyzed.r) = "Unreachable" THEN analyzed.h
                     ELSE [analyzed.h EXCEPT !.ira.instruction_index = @ + 1])
          /\ step' = [instruction |-> old_instruction, type |-> analyzed.r,
                      skipped |-> FALSE]
          /\ pc' = IF analyzed.h.aborted THEN "aborted" ELSE pc
          /\ demoted' = demoted \cup SlotsDemoted(ira.mem_slot_list,
                                                  analyzed.h.ira.mem_slot_list)
          /\ written' = IF SlotWritten(Heap, old_instruction, analyzed.r) = 0 THEN written
                        ELSE [written EXCEPT
                                 ![SlotWritten(Heap, old_instruction, analyzed.r)] =
                                     ValueWritten(Heap, old_instruction)]
    /\ UNCHANGED <<result, type_table, fn_def_body>>

\* the result of ir_analyze; p is the peer type of the values returned
ir_analyze_result(p) ==
    /\ result' = p.r
    /\ SetHeap(p.h)
    /\ pc' = IF p.h.aborted THEN "aborted" ELSE "done"

\* ir_analyze after its loop
IrAnalyzeEnd ==
    /\ pc = "loop"
    /\ ~Running
    /\ IF new_irb.exec.invalid
       THEN ir_analyze_result(Res(Heap, "invalid"))
       ELSE IF Len(ira.implicit_return_type_list) = 0
       THEN ir_analyze_result(Res(Heap, "unreachable"))
       ELSE \E p \in {ir_resolve_peer_types(Heap, ira.implicit_return_type_list)} :
               ir_analyze_result(p)
    /\ UNCHANGED <<step, demoted, written, type_table, fn_def_body>>

\* an executable written in IR, handed to ir_analyze
IrInit == \E p \in IrPrograms : Analyzable(Executable(p.blocks, p.code))

Next ==
    \/ IrAnalyzeBegin
    \/ SkipDeadCode
    \/ AnalyzeInstruction
    \/ IrAnalyzeEnd

Spec == Init /\ [][Next]_vars_all

\* The loop of ir_analyze runs on, nothing preempts it: weak fairness of Next.
FairSpec == Spec /\ WF_vars_all(Next)

\* ir_analyze on the executables written in IR
IrSpec == IrInit /\ [][Next]_vars_all

\* ---- ir_gen at its second pass
Label(name) == [type |-> "Label", name |-> name]

Goto(name, is_inline) == [type |-> "Goto", name |-> name, is_inline |-> is_inline]

\* the statements of the function bodies with labels and gotos, and with a break
\* or a continue outside of a loop: a block is a block context of its own
GotoStatements ==
    { Goto("a", FALSE), Goto("b", TRUE), Label("a"), Label("b"),
      Block(<< Label("a") >>), Block(<< Goto("a", FALSE) >>),
      Block(<< Label("b"), Goto("b", FALSE) >>), [type |-> "Break"], [type |-> "Continue"] }

GotoPrograms ==
    UNION { { Block(statements) : statements \in [1..n -> GotoStatements] }
            : n \in 1..MaxStatements }

\* ir_gen is called on one of the bodies
GenInit ==
    /\ fn_def_body \in GotoPrograms
    /\ insts = ZeroHeap.insts
    /\ bbs = ZeroHeap.bbs
    /\ vars = ZeroHeap.vars
    /\ old_irb = ZeroHeap.old_irb
    /\ new_irb = ZeroHeap.new_irb
    /\ ira = ZeroHeap.ira
    /\ errors = ZeroHeap.errors
    /\ aborted = ZeroHeap.aborted
    /\ type_table = TypeTable
    /\ pc = "gen"
    /\ step = NoStep
    /\ result = "null"
    /\ demoted = {}
    /\ written = <<>>

\* ir_gen up to its call of ir_goto_pass2
IrGenBody ==
    /\ pc = "gen"
    /\ \E h \in {ir_gen_body(Heap, fn_def_body)} :
          /\ SetHeap(h)
          /\ pc' = IF h.aborted THEN "aborted"
                   ELSE IF h.old_irb.exec.invalid THEN "invalid"
                   ELSE "pass2"
    /\ UNCHANGED <<step, result, demoted, written, type_table, fn_def_body>>

\* the call of ir_goto_pass2 in ir_gen
IrGotoPass2 ==
    /\ pc = "pass2"
    /\ \E pass \in {ir_goto_pass2(Heap)} :
          /\ SetHeap([pass.h EXCEPT !.old_irb.exec.invalid = ~pass.r])
          /\ pc' = IF pass.r THEN "generated" ELSE "invalid"
    /\ UNCHANGED <<step, result, demoted, written, type_table, fn_def_body>>

GenNext ==
    \/ IrGenBody
    \/ IrGotoPass2

GenSpec == GenInit /\ [][GenNext]_vars_all

\* ------------------------------------------------------------- properties
Terminated == pc \in {"done", "aborted"}

\* the diagnostics of ir_inline_bb recorded so far
QuotaErrors ==
    Cardinality({ i \in 1..Len(errors) :
                    errors[i] = "evaluation exceeded backwards branches" })

OldBlocks == { b \in 1..Len(bbs) : bbs[b].exec = "old" }

OldInsts == { i \in 1..Len(insts) : insts[i].exec = "old" }

NewInsts == { i \in 1..Len(insts) : insts[i].exec = "new" }

\* the last instruction of a block
Terminator(b) == bbs[b].instruction_list[Len(bbs[b].instruction_list)]

\* The body of the function is an inline loop on the constant true: the entry
\* block branches to a block that tests the constant and whose then block
\* branches back to it, every branch inline.
LoopsForever ==
    \E c \in OldBlocks, t \in OldBlocks :
        /\ insts[Terminator(old_irb.exec.basic_block_list[1])].id = "Br"
        /\ insts[Terminator(old_irb.exec.basic_block_list[1])].dest_blocks = <<c>>
        /\ insts[Terminator(c)].id = "CondBr"
        /\ insts[Terminator(c)].is_inline
        /\ insts[Terminator(c)].dest_blocks[1] = t
        /\ insts[insts[Terminator(c)].op1].id = "Const"
        /\ insts[insts[Terminator(c)].op1].static_value = StaticBool(TRUE)
        /\ insts[Terminator(t)].id = "Br"
        /\ insts[Terminator(t)].is_inline
        /\ insts[Terminator(t)].dest_blocks = <<c>>

\* C1: the analysis of an executable whose inline evaluation loops for ever
\* ends, having counted exactly quota + 1 backward branches, with the one
\* diagnostic of the exceeded quota and the result invalid.
C1_QuotaEndsInlineLoop ==
    (LoopsForever /\ pc = "loop") ~>
        (/\ pc = "done"
         /\ result = "invalid"
         /\ new_irb.exec.backward_branch_count = new_irb.exec.backward_branch_quota + 1
         /\ QuotaErrors = 1)

C1_Witness ==
    /\ LoopsForever
    /\ pc = "done"
    /\ new_irb.exec.backward_branch_quota = MaxQuota
    /\ new_irb.exec.backward_branch_count = MaxQuota + 1
    /\ QuotaErrors = 1

\* the memory slot of a variable
SlotOf(var) == mem_slot_addr(vars[var].mem_slot_index)

\* the original statement of C2: a slot that has been demoted stays known at
\* runtime only
C2_DemotedStaysRuntime ==
    \A s \in demoted : ira.mem_slot_list[s].special = "Runtime"

\* C2: a slot known at runtime only, a demoted one among them, comes to be known
\* at compile time again by nothing but the analysis of the declaration of its
\* variable; no store does it.
C2_OnlyDeclVarPromotes ==
    [][\A s \in DOMAIN ira.mem_slot_list :
          (ira.mem_slot_list[s].special = "Runtime"
              /\ ira'.mem_slot_list[s].special # "Runtime")
          => /\ insts[step'.instruction].id = "DeclVar"
             /\ vars[insts[step'.instruction].var].mem_slot_index # SIZE_MAX
             /\ SlotOf(insts[step'.instruction].var) = s]_vars_all

\* a demoted slot is known at compile time again: its declaration was analysed anew
C2_Witness ==
    \E s \in demoted :
        /\ ira.mem_slot_list[s].special = "Static"
        /\ step.instruction # 0
        /\ insts[step.instruction].id = "DeclVar"
        /\ SlotOf(insts[step.instruction].var) = s

\* the blocks a block of the verified executable branches to
Successors(b) ==
    IF bbs[b].instruction_list = <<>> THEN {}
    ELSE { insts[Terminator(b)].dest_blocks[k] :
               k \in 1..Len(insts[Terminator(b)].dest_blocks) }
         \cup ({insts[Terminator(b)].else_block} \ {0})

RECURSIVE ReachableFrom(_)

ReachableFrom(blocks) ==
    IF \A b \in blocks : Successors(b) \subseteq blocks THEN blocks
    ELSE ReachableFrom(blocks \cup UNION { Successors(b) : b \in blocks })

\* the instructions of the verified executable in blocks reachable from its entry
ReachableNewInsts ==
    IF new_irb.exec.basic_block_list = <<>> THEN {}
    ELSE UNION { { bbs[b].instruction_list[k] : k \in 1..Len(bbs[b].instruction_list) }
                 : b \in ReachableFrom({new_irb.exec.basic_block_list[1]}) }

\* C3: when ir_analyze has returned a type other than invalid, every instruction
\* of the verified executable that is reachable from the entry block has a
\* type, and the type is not invalid.
C3_TypeTotality ==
    (pc = "done" /\ result # "invalid")
        => \A i \in ReachableNewInsts : insts[i].type_entry \notin {"null", "invalid"}

\* the verified instructions whose link names the old instruction o
LinkedTo(o) == { n \in NewInsts : insts[n].other = o }

TurnOf(id) ==
    /\ Running
    /\ ~is_dead_code(insts[old_instruction])
    /\ insts[old_instruction].id = id

\* the verified condition of the conditional branch the loop is about to analyse
Condition == insts[insts[old_instruction].op1].other

\* the conditional branch the loop is about to analyse is one to evaluate now:
\* it is inline, or its condition is known at compile time
CondBrEvaluated ==
    /\ TurnOf("CondBr")
    /\ type_id(insts[Condition].type_entry) # "Invalid"
    /\ insts[old_instruction].is_inline \/ insts[Condition].static_value.special = "Static"

\* the successor a condition known at compile time chooses
Chosen ==
    IF insts[Condition].static_value.x_bool THEN insts[old_instruction].dest_blocks[1]
    ELSE insts[old_instruction].dest_blocks[2]

\* the turn continues the analysis in the chosen successor, the const-predecessor
\* the block it leaves, and has put no branch into the verified executable
InlinesChosen ==
    /\ old_irb'.current_basic_block = Chosen
    /\ ira'.instruction_index = 0
    /\ ira'.const_predecessor_bb = old_irb.current_basic_block
    /\ \A i \in (Len(insts) + 1)..Len(insts') : insts'[i].id \notin {"Br", "CondBr"}
    /\ errors' = errors

\* the turn has recorded an error and cancelled the analysis
Cancels ==
    /\ Len(errors') = Len(errors) + 1
    /\ new_irb'.exec.invalid
    /\ ira'.block_queue_index = SIZE_MAX
    /\ old_irb'.current_basic_block = old_irb.current_basic_block

\* the turn has put the conditional branch into the verified executable
EmitsCondBr ==
    /\ Len(insts') > Len(insts)
    /\ insts'[Len(insts')].id = "CondBr"
    /\ insts'[Len(insts')].exec = "new"
    /\ insts'[old_instruction].other = Len(insts')

\* the original statement of C5: a conditional branch that is inline or has a
\* condition known at compile time is inlined
C5_EvaluatedIsInlined == [][CondBrEvaluated => InlinesChosen]_vars_all

\* C5: a conditional branch that is inline or has a condition known at compile
\* time is evaluated now.  A condition that is no bool known at compile time is
\* an error that cancels the analysis.  Otherwise the chosen successor is
\* inlined when the branch is inline or the successor is referenced once (and
\* the branch does not exceed the quota of backward branches), and else the
\* branch is put into the verified executable.
C5_EvaluatedCondBr ==
    [][CondBrEvaluated =>
          IF insts[Condition].static_value.special = "Static"
                 /\ insts[Condition].type_entry = "bool"
          THEN IF insts[old_instruction].is_inline \/ bbs[Chosen].ref_count = 1
               THEN IF /\ bbs[Chosen].debug_id <= bbs[old_irb.current_basic_block].debug_id
                       /\ new_irb.exec.backward_branch_count
                              >= new_irb.exec.backward_branch_quota
                    THEN Cancels
                    ELSE InlinesChosen
               ELSE EmitsCondBr
          ELSE Cancels]_vars_all

\* a conditional branch with a condition known at compile time has been inlined
C5_Witness ==
    /\ step.instruction # 0
    /\ insts[step.instruction].id = "CondBr"
    /\ insts[insts[insts[step.instruction].op1].other].static_value.special = "Static"
    /\ step.type = "unreachable"
    /\ old_irb.current_basic_block \in
           { insts[step.instruction].dest_blocks[k] : k \in 1..2 }
    /\ ira.instruction_index = 0
    /\ ira.const_predecessor_bb # 0
    /\ errors = <<>>

\* the old blocks a branch of the verified executable goes to
BranchedTo ==
    { b \in OldBlocks :
        /\ bbs[b].other # 0
        /\ \E i \in NewInsts :
              /\ insts[i].id \in {"Br", "CondBr"}
              /\ \E k \in 1..Len(insts[i].dest_blocks) : insts[i].dest_blocks[k] = bbs[b].other }

\* the old blocks the analysis has queued
Queued == { ira.old_bb_queue[k] : k \in 1..Len(ira.old_bb_queue) }

\* C6: the work queue holds the entry block and blocks that a branch of the
\* verified executable goes to; a block the analysis only reaches by inlining
\* branches is not on it
C6_InlinedNotQueued ==
    \A b \in Queued :
        b = old_irb.exec.basic_block_list[1] \/ b \in BranchedTo

\* the incoming blocks that the Phi instructions at the head of a block name
IncomingOf(b) ==
    { insts[bbs[b].instruction_list[n]].dest_blocks[k] :
        n \in { m \in 1..Len(bbs[b].instruction_list) :
                   \A l \in 1..m : insts[bbs[b].instruction_list[l]].id = "Phi" },
        k \in 1..2 }

\* every incoming block of a queued block is queued at a lower position
PredecessorsQueuedFirst ==
    \A k \in 1..Len(ira.old_bb_queue) :
        \A p \in IncomingOf(ira.old_bb_queue[k]) :
            \E m \in 1..(k - 1) : ira.old_bb_queue[m] = p

\* a block that is not inlined is the one at the cursor of the queue
CursorBlockAnalyzed ==
    (Running /\ ira.const_predecessor_bb = 0)
        => old_irb.current_basic_block = ira.old_bb_queue[ira.block_queue_index + 1]

\* the queue grows at its end, holds no block twice, and its cursor moves on by
\* one block, which is then the block analysed, or leaves the queue
QueueConsumedInOrder ==
    /\ Len(ira'.old_bb_queue) >= Len(ira.old_bb_queue)
    /\ SubSeq(ira'.old_bb_queue, 1, Len(ira.old_bb_queue)) = ira.old_bb_queue
    /\ \A k, m \in 1..Len(ira'.old_bb_queue) :
          ira'.old_bb_queue[k] = ira'.old_bb_queue[m] => k = m
    /\ ira'.block_queue_index
           \in {ira.block_queue_index, ira.block_queue_index + 1, SIZE_MAX}
    /\ (/\ ira'.block_queue_index = ira.block_queue_index + 1
        /\ ira'.block_queue_index < Len(ira'.old_bb_queue))
           => /\ old_irb'.current_basic_block
                     = ira'.old_bb_queue[ira'.block_queue_index + 1]
              /\ ira'.instruction_index = 0
              /\ ira'.const_predecessor_bb = 0
    /\ ira'.block_queue_index = ira.block_queue_index
           => \/ old_irb'.current_basic_block = old_irb.current_basic_block
              \/ ira'.const_predecessor_bb = old_irb.current_basic_block

\* C7: the queued blocks are analysed in the order of the queue, and the
\* incoming blocks of the Phi instructions at the head of a queued block are
\* queued at lower positions than the block
C7_QueueOrder ==
    /\ [](PredecessorsQueuedFirst /\ CursorBlockAnalyzed)
    /\ [][pc = "loop" => QueueConsumedInOrder]_vars_all

\* a block with Phi instructions at its head is analysed at its turn of the
\* queue, one of its incoming blocks queued by the walk over the Phis
C7_Witness ==
    /\ Running
    /\ ira.block_queue_index > 0
    /\ ira.const_predecessor_bb = 0
    /\ IncomingOf(old_irb.current_basic_block) # {}
    /\ old_irb.current_basic_block = ira.old_bb_queue[ira.block_queue_index + 1]
    /\ \E p \in IncomingOf(old_irb.current_basic_block) : p \notin BranchedTo

\* the verified executable is marked invalid, or the backward branches
\* evaluated are more than the quota
Cancelled ==
    \/ new_irb.exec.invalid
    \/ new_irb.exec.backward_branch_count > new_irb.exec.backward_branch_quota

\* C8: once the verified executable is marked invalid or the quota of backward
\* branches is exceeded, the analysis stays cancelled, no instruction is
\* analysed to a type other than invalid (the loop analyses none at all), and
\* ir_analyze returns invalid
C8_CancellationIsGlobal ==
    /\ [][Cancelled => Cancelled']_vars_all
    /\ [][(Cancelled /\ step' # step) => step'.type = "invalid"]_vars_all
    /\ [](Cancelled => ~Running)
    /\ []((Cancelled /\ pc = "done") => result = "invalid")
    /\ (Cancelled ~> (pc = "done" /\ result = "invalid"))

\* ir_analyze has returned invalid after a branch beyond the quota
C8_Witness ==
    /\ pc = "done"
    /\ result = "invalid"
    /\ new_irb.exec.invalid
    /\ new_irb.exec.backward_branch_count > new_irb.exec.backward_branch_quota
    /\ ira.block_queue_index = SIZE_MAX

\* the loop analyses an instruction and the analysis records an error
RecordsError == Running /\ Len(errors') > Len(errors)

OperandsOf(o) ==
    ({insts[o].op1, insts[o].op2}
        \cup { insts[o].incoming_values[k] : k \in 1..Len(insts[o].incoming_values) })
    \ {0}

\* the loop analyses an instruction one of whose operands has the type invalid
SeesInvalid ==
    /\ Running
    /\ ~is_dead_code(insts[old_instruction])
    /\ \E p \in OperandsOf(old_instruction) :
          insts[p].other # 0 /\ insts[insts[p].other].type_entry = "invalid"

InstructionIds ==
    {"Br", "CondBr", "SwitchBr", "DeclVar", "StorePtr", "Call", "Return", "Unreachable",
     "SetFnTest", "SetFnVisible", "SetDebugSafety", "Import", "Phi", "UnOp", "BinOp",
     "LoadPtr", "Const", "Cast", "ContainerInitList", "ContainerInitFields",
     "StructInit", "FieldPtr", "ElemPtr", "VarPtr", "TypeOf", "ToPtrType",
     "PtrTypeChild", "ArrayLen", "StructFieldPtr", "EnumFieldPtr", "ArrayType",
     "SliceType", "CompileVar", "SizeOf", "TestNull", "UnwrapMaybe", "Clz", "Ctz",
     "SwitchVar", "SwitchTarget", "EnumTag", "StaticEval", "Ref", "Asm"}

\* the kinds of instruction that are observable whatever their flags
ObservableIds ==
    {"Br", "CondBr", "SwitchBr", "DeclVar", "StorePtr", "Call", "Return", "Unreachable",
     "SetFnTest", "SetFnVisible", "SetDebugSafety", "Import"}

\* the instruction at the cursor is referenced by nothing and not observable
Unobserved ==
    /\ insts[old_instruction].ref_count = 0
    /\ insts[old_instruction].id \notin ObservableIds
    /\ insts[old_instruction].id # "Asm"

\* the turn of the loop passes the instruction at the cursor by
PassesBy ==
    /\ ira' = [ira EXCEPT !.instruction_index = @ + 1]
    /\ UNCHANGED <<insts, bbs, vars, old_irb, new_irb, errors, aborted>>

\* C11: the loop passes an instruction by, nothing verified built and nothing
\* reported, exactly when nothing refers to it and it has no observable side
\* effect; the instructions with observable side effects are Br, CondBr,
\* SwitchBr, DeclVar, StorePtr, Call, Return, Unreachable, SetFnTest,
\* SetFnVisible, SetDebugSafety and Import, and an Asm flagged to have them
C11_SkipsUnobserved ==
    /\ [][Running => /\ step'.skipped <=> Unobserved
                     /\ step'.skipped => PassesBy
                     /\ ~step'.skipped /\ ~aborted' =>
                           insts'[old_instruction].type_entry = step'.type]_vars_all
    /\ [](\A id \in InstructionIds, flag \in BOOLEAN :
             ir_has_side_effects([id |-> id, has_side_effects |-> flag])
                 <=> (id \in ObservableIds \/ (id = "Asm" /\ flag)))

\* an instruction nothing refers to and with no side effect has been passed by
C11_Witness ==
    /\ step.instruction # 0
    /\ step.skipped
    /\ insts[step.instruction].ref_count = 0
    /\ insts[step.instruction].id \notin ObservableIds
    /\ insts[step.instruction].other = 0
    /\ errors = <<>>

\* the verified pointer that the load or store at the cursor goes through
PtrOperand == insts[insts[old_instruction].op1].other

\* the verified value that the store at the cursor stores
ValueOperand == insts[insts[old_instruction].op2].other

\* the load or store at the cursor goes through the VarPtr of a variable with a
\* memory slot
ThroughSlot ==
    /\ PtrOperand # 0
    /\ insts[PtrOperand].id = "VarPtr"
    /\ insts[PtrOperand].type_entry # "invalid"
    /\ vars[insts[PtrOperand].var].mem_slot_index # SIZE_MAX

\* the memory slot behind the pointer
SlotThrough == SlotOf(insts[PtrOperand].var)

\* the verified instruction the turn of the loop links the old one to
Verified == insts'[insts'[old_instruction].other]

\* a load through the VarPtr of a slot that holds a value known at compile time
\* is folded to that value
FoldsLoad ==
    (TurnOf("LoadPtr") /\ ThroughSlot /\ ira.mem_slot_list[SlotThrough].special = "Static")
        => /\ Verified.id = "Const"
           /\ Verified.static_value = ira.mem_slot_list[SlotThrough]
           /\ errors' = errors

\* a store of a value known at compile time to such a slot updates the slot and
\* no store is put into the verified executable
FoldsStore ==
    (/\ TurnOf("StorePtr") /\ ThroughSlot
     /\ ira.mem_slot_list[SlotThrough].special = "Static"
     /\ insts[ValueOperand].static_value.special = "Static"
     /\ step'.type = "void")
        => /\ ira'.mem_slot_list[SlotThrough] = insts[ValueOperand].static_value
           /\ \A i \in (Len(insts) + 1)..Len(insts') : insts'[i].id # "StorePtr"

\* a folded load yields the value the slot was last written with
FoldedLoadIsLastWritten ==
    (TurnOf("LoadPtr") /\ ThroughSlot /\ Verified.id = "Const")
        => /\ Verified.static_value.special = "Static"
           /\ Verified.static_value = written[SlotThrough]

\* C12: for a variable with a memory slot, a load through VarPtr while the
\* slot holds a value known at compile time yields that value, a store of a
\* value known at compile time to such a slot updates it, and so a folded
\* load yields the value that a DeclVar or a StorePtr last wrote to the slot
C12_SlotLoadsAndStores ==
    [][FoldsLoad /\ FoldsStore /\ FoldedLoadIsLastWritten]_vars_all

\* a load is folded to the value a store wrote over the declared one
C12_Witness ==
    /\ step.instruction # 0
    /\ insts[step.instruction].id = "LoadPtr"
    /\ insts[insts[step.instruction].other].id = "Const"
    /\ insts[insts[step.instruction].other].static_value.special = "Static"
    /\ insts[insts[step.instruction].other].static_value.x_bignum = 1
    /\ \E s \in DOMAIN written : written[s].x_bignum = 1 /\ ira.mem_slot_list[s] = written[s]

\* ---- ElemPtr on constant pointers
ArrayPtr == insts[insts[old_instruction].op1].other

ElemIndex == insts[insts[old_instruction].op2].other

\* the constant pointer value the array_ptr operand addresses
IndexedPointer == ira.mem_slot_list[insts[ArrayPtr].static_value.base_ptr]

\* the loop is at an ElemPtr that indexes a constant pointer with known base
\* and known offset by a Static index of the range of usize
IndexesKnownPointer ==
    /\ TurnOf("ElemPtr")
    /\ type_id(insts[ArrayPtr].type_entry) = "Pointer"
    /\ type_id(pointer_child_type(insts[ArrayPtr].type_entry)) = "Pointer"
    /\ insts[ArrayPtr].static_value.special = "Static"
    /\ insts[ArrayPtr].static_value.base_ptr # 0
    /\ IndexedPointer.special = "Static"
    /\ IndexedPointer.index # SIZE_MAX
    /\ type_id(insts[ElemIndex].type_entry) = "NumLitInt"
    /\ insts[ElemIndex].static_value.special = "Static"
    /\ insts[ElemIndex].static_value.x_bignum \in 0..SIZE_MAX

\* the constant pointers of the verified executable and of the memory slots
ConstantPointers ==
    { insts[i].static_value : i \in { j \in NewInsts :
          /\ type_id(insts[j].type_entry) = "Pointer"
          /\ insts[j].static_value.special = "Static" } }
    \cup { ira.mem_slot_list[i] : i \in { j \in DOMAIN ira.mem_slot_list :
               /\ ira.mem_slot_list[j].special = "Static"
               /\ ira.mem_slot_list[j].base_ptr # 0 } }

\* C13: an ElemPtr on a constant pointer {base, o} with a Static index k is
\* folded to the constant pointer {base, o + k} exactly when o + k is below the
\* size of the base array, and is otherwise an out-of-bounds error reported at
\* the ElemPtr; no constant pointer has an index outside its base array.
C13_ElemPtrInBounds ==
    /\ [][IndexesKnownPointer =>
            LET sum == IndexedPointer.index + insts[ElemIndex].static_value.x_bignum
                base == IndexedPointer.base_ptr
            IN IF sum < ira.mem_slot_list[base].x_array_size
               THEN /\ errors' = errors
                    /\ type_id(step'.type) = "Pointer"
                    /\ insts'[insts'[step'.instruction].other].static_value.special
                           = "Static"
                    /\ insts'[insts'[step'.instruction].other].static_value.base_ptr = base
                    /\ insts'[insts'[step'.instruction].other].static_value.index = sum
               ELSE /\ errors' = Append(errors, "index outside pointer of size")
                    /\ step'.type = "invalid"]_vars_all
    /\ [](\A ptr \in ConstantPointers :
              ptr.index # SIZE_MAX => ptr.index < ira.mem_slot_list[ptr.base_ptr].x_array_size)

\* ---- SwitchBr
Scrutinee == insts[insts[old_instruction].op1].other

\* the loop is at a SwitchBr to evaluate now: its scrutinee is Static, or the
\* switch or the executable is inline
SwitchEvaluated ==
    /\ TurnOf("SwitchBr")
    /\ type_id(insts[Scrutinee].type_entry) # "Invalid"
    /\ \/ insts[Scrutinee].static_value.special = "Static"
       \/ insts[old_instruction].is_inline
       \/ new_irb.exec.is_inline

\* the cases whose value is the value of the scrutinee
MatchingCases ==
    { i \in DOMAIN insts[old_instruction].case_values :
          insts[insts[insts[old_instruction].case_values[i]].other].static_value.x_bignum
              = insts[Scrutinee].static_value.x_bignum }

\* the target block of the first matching case, the else block when there is none
MatchingTarget ==
    IF MatchingCases = {} THEN insts[old_instruction].else_block
    ELSE insts[old_instruction].dest_blocks[
             CHOOSE i \in MatchingCases : \A j \in MatchingCases : i <= j]

\* the turn goes on in block b: inlined, or by a Br to its new block
ContinuesAt(b) ==
    \/ old_irb'.current_basic_block = b /\ ira'.instruction_index = 0
    \/ /\ Len(insts') > Len(insts)
       /\ insts'[Len(insts')].id = "Br"
       /\ insts'[Len(insts')].dest_blocks = <<bbs'[b].other>>
       /\ insts'[old_instruction].other = Len(insts')

\* C14: a SwitchBr whose scrutinee is Static, or that is inline, puts no
\* SwitchBr into the verified executable, and with a Static scrutinee the
\* analysis continues at the target block of the matching case.
C14_SwitchFolded ==
    [][SwitchEvaluated =>
          /\ \A i \in (Len(insts) + 1)..Len(insts') : insts'[i].id # "SwitchBr"
          /\ insts[Scrutinee].static_value.special = "Static" =>
                 ContinuesAt(MatchingTarget)]_vars_all

\* ---- Phi
\* a branch of the unverified executable goes to block b
Targeted(b) ==
    \E i \in OldInsts :
        /\ insts[i].id \in {"Br", "CondBr", "SwitchBr"}
        /\ \/ \E k \in DOMAIN insts[i].dest_blocks : insts[i].dest_blocks[k] = b
           \/ insts[i].else_block = b

\* the incoming entries of the Phi the loop is at whose predecessor is not dead
Surviving ==
    { k \in DOMAIN insts[old_instruction].dest_blocks :
          Targeted(insts[old_instruction].dest_blocks[k]) }

PhiOperands ==
    [k \in DOMAIN insts[old_instruction].incoming_values |->
        insts[insts[old_instruction].incoming_values[k]].other]

\* the loop is at a Phi that resolves the peer type of all its operands, none
\* of them a literal
ResolvesPeers ==
    /\ TurnOf("Phi")
    /\ ira.const_predecessor_bb = 0
    /\ Len(PhiOperands) > 1
    /\ \A k \in DOMAIN PhiOperands :
           /\ bbs[insts[old_instruction].dest_blocks[k]].ref_count # 0
           /\ type_id(insts[PhiOperands[k]].type_entry) \notin {"Invalid", "NumLitInt"}

Orders(n) == { f \in [1..n -> 1..n] : \A i, j \in 1..n : f[i] = f[j] => i = j }

\* C16: the peer type of operands without literals does not depend on their
\* order: the type the Phi gets is the type every permutation of its operands
\* resolves to, invalid standing for an error.
C16_PeerOrderIndependent ==
    [][ResolvesPeers =>
          \A f \in Orders(Len(PhiOperands)) :
              ir_resolve_peer_types(Heap, [k \in DOMAIN PhiOperands |-> PhiOperands[f[k]]]).r
                  = step'.type]_vars_all

\* ---- coercion
\* the verified value of the Return the loop is at
Returned == insts[insts[old_instruction].op1].other

\* the loop is at a Return whose value is to be coerced to the return type
\* the caller expects
Coerces ==
    /\ TurnOf("Return")
    /\ type_id(insts[Returned].type_entry) \notin {"Invalid", "Unreachable"}
    /\ ira.explicit_return_type \notin {"null", insts[Returned].type_entry}

\* implicit coercion of the value to the expected type answers yes
AnswersYes ==
    ir_types_match_with_implicit_cast(Heap, ira.explicit_return_type,
                                      insts[Returned].type_entry, Returned).r = "Yes"

\* the turn has put a Return of a value of the expected type into the verified
\* executable
ReturnsCoerced ==
    /\ Len(insts') > Len(insts)
    /\ insts'[Len(insts')].id = "Return"
    /\ insts'[old_instruction].other = Len(insts')
    /\ insts'[Len(insts')].op1 # invalid_instruction
    /\ insts'[insts'[Len(insts')].op1].type_entry = ira.explicit_return_type

\* C17: when implicit coercion of a value to a type answers yes, the cast of
\* the value to the type succeeds or an error is reported: it does not come
\* back invalid with nothing reported.
C17_CoercionSound ==
    [][Coerces /\ AnswersYes => ReturnsCoerced \/ Len(errors') > Len(errors)]_vars_all

\* a value has been coerced to another type the caller expects
C17_Witness ==
    /\ step.instruction # 0
    /\ insts[step.instruction].id = "Return"
    /\ step.type = "unreachable"
    /\ errors = <<>>
    /\ insts[insts[step.instruction].other].id = "Return"
    /\ insts[insts[insts[step.instruction].other].op1].type_entry = ira.explicit_return_type
    /\ insts[insts[insts[step.instruction].op1].other].type_entry # ira.explicit_return_type
    /\ type_id(ira.explicit_return_type) = "Maybe"

\* ---- literals into sized types
RECURSIVE OddPart(_)

\* n without its factors of two
OddPart(n) == IF n # 0 /\ n % 2 = 0 THEN OddPart(n \div 2) ELSE n

\* the integer n is a value of the sized numeric type t: in the range of an
\* integer type, within the significand (24 bits of f32) of a float type
Representable(t, n) ==
    IF type_id(t) = "Int"
    THEN IF TypeTable[t].is_signed
         THEN -(2 ^ (TypeTable[t].bit_count - 1)) <= n /\ n < 2 ^ (TypeTable[t].bit_count - 1)
         ELSE 0 <= n /\ n < 2 ^ TypeTable[t].bit_count
    ELSE -(2 ^ 24) < OddPart(n) /\ OddPart(n) < 2 ^ 24

\* the loop is at a Return of a literal the caller expects as a sized number
CoercesLiteral ==
    /\ Coerces
    /\ type_id(insts[Returned].type_entry) = "NumLitInt"
    /\ type_id(ira.explicit_return_type) \in {"Int", "Float"}

\* C18: implicit coercion of a literal to a sized numeric type that cannot
\* represent its value exactly does not answer yes and reports "integer value
\* cannot be implicitly casted to type".
C18_LiteralFits ==
    [][CoercesLiteral
       /\ ~Representable(ira.explicit_return_type, insts[Returned].static_value.x_bignum)
       => /\ ~AnswersYes
          /\ Len(errors') > Len(errors)
          /\ errors'[Len(errors) + 1] = "integer value cannot be implicitly casted to type"
      ]_vars_all

\* ---- arithmetic at compile time
\* the verified operands of the BinOp the loop is at
Operand1 == insts[insts[old_instruction].op1].other

Operand2 == insts[insts[old_instruction].op2].other

\* the loop is at a BinOp of two constants of one sized integer type
FoldsIntegers ==
    /\ TurnOf("BinOp")
    /\ type_id(insts[Operand1].type_entry) = "Int"
    /\ insts[Operand2].type_entry = insts[Operand1].type_entry
    /\ insts[Operand1].static_value.special = "Static"
    /\ insts[Operand2].static_value.special = "Static"

\* the result of the operation in the integers
Exact ==
    LET a == insts[Operand1].static_value.x_bignum
        b == insts[Operand2].static_value.x_bignum
        op_id == insts[old_instruction].op_id
    IN CASE op_id \in {"Add", "AddWrap"} -> a + b
         [] op_id \in {"Sub", "SubWrap"} -> a - b
         [] op_id \in {"Mult", "MultWrap"} -> a * b
         [] op_id \in {"BitShiftLeft", "BitShiftLeftWrap"} -> a * (2 ^ b)
         [] OTHER -> 0

\* n modulo 2^N in the range of the N-bit integer type
Reduced(n, type) ==
    LET modulus == 2 ^ TypeTable[type].bit_count
    IN IF TypeTable[type].is_signed /\ n % modulus >= modulus \div 2
       THEN (n % modulus) - modulus
       ELSE n % modulus

\* the turn has left the BinOp as a value known at compile time
Folded ==
    /\ insts'[old_instruction].other = old_instruction
    /\ insts'[old_instruction].static_value.special = "Static"

\* C19: a wrapping add, subtract, multiply or shift-left of two constants of an
\* N-bit integer type folds to the exact result reduced modulo 2^N into the
\* range of the type.
C19_WrapsModulo ==
    [][/\ FoldsIntegers
       /\ insts[old_instruction].op_id \in {"AddWrap", "SubWrap", "MultWrap", "BitShiftLeftWrap"}
       /\ Folded
       => insts'[old_instruction].static_value.x_bignum
              = Reduced(Exact, insts[Operand1].type_entry)]_vars_all

\* the BinOp divides by zero
DividesByZero ==
    /\ insts[old_instruction].op_id \in {"Div", "Mod"}
    /\ insts[Operand2].static_value.x_bignum = 0

\* the exact result of the non-wrapping BinOp is no value of the type
Overflows ==
    /\ insts[old_instruction].op_id \in {"Add", "Sub", "Mult", "BitShiftLeft"}
    /\ ~Representable(insts[Operand1].type_entry, Exact)

\* the BinOp shifts by an amount that is no bit position of the type
ShiftsOutOfRange ==
    /\ insts[old_instruction].op_id \in {"BitShiftLeft", "BitShiftLeftWrap", "BitShiftRight"}
    /\ \/ insts[Operand2].static_value.x_bignum < 0
       \/ insts[Operand2].static_value.x_bignum
              >= TypeTable[insts[Operand1].type_entry].bit_count

\* C20: folding a BinOp of two constants that divides by zero, overflows the
\* type in a non-wrapping operation or shifts by an out-of-range amount
\* reports an error and answers invalid instead of a folded value.
C20_FoldErrors ==
    [][FoldsIntegers /\ (DividesByZero \/ Overflows \/ ShiftsOutOfRange)
       => /\ Len(errors') > Len(errors)
          /\ step'.type = "invalid"
          /\ insts'[old_instruction].static_value.special # "Static"]_vars_all

\* ---- unwrapping a maybe known at compile time
\* the unverified UnwrapMaybe whose result the LoadPtr the loop is at loads
Unwrapped == insts[old_instruction].op1

\* the verified pointer to the maybe that is unwrapped
MaybePointer == insts[insts[Unwrapped].op1].other

\* the maybe behind a pointer known at compile time
MaybeValue == ira.mem_slot_list[const_ptr_pointee(insts[MaybePointer].static_value)]

\* the loop is at the load of ??m for a maybe m known at compile time and not null
UnwrapsStatic ==
    /\ TurnOf("LoadPtr")
    /\ insts[Unwrapped].id = "UnwrapMaybe"
    /\ insts[MaybePointer].static_value.special = "Static"
    /\ MaybeValue.special = "Static"
    /\ MaybeValue.x_maybe # << >>

\* C21: the unwrapping of a maybe known at compile time and not null is folded
\* to the payload of the maybe, a constant of the child type, and no UnwrapMaybe
\* instruction is emitted.
C21_UnwrapFolds ==
    [][UnwrapsStatic
       => /\ insts'[insts'[old_instruction].other].id = "Const"
          /\ insts'[insts'[old_instruction].other].type_entry
                 = type_table[pointer_child_type(insts[MaybePointer].type_entry)].child_type
          /\ insts'[insts'[old_instruction].other].static_value = MaybeValue.x_maybe[1]
          /\ \A i \in NewInsts : insts[i].id # "UnwrapMaybe"]_vars_all

\* the unwrapping is folded to a constant of the child type, with no UnwrapMaybe
\* instruction emitted
C21_FoldsToConstant ==
    [][UnwrapsStatic
       => /\ insts'[insts'[old_instruction].other].id = "Const"
          /\ insts'[insts'[old_instruction].other].type_entry
                 = type_table[pointer_child_type(insts[MaybePointer].type_entry)].child_type
          /\ insts'[insts'[old_instruction].other].static_value.special = "Static"
          /\ \A i \in NewInsts : insts[i].id # "UnwrapMaybe"]_vars_all

\* ---- the second pass of ir_gen
\* the label a goto names that is in scope at the goto, an index of all_labels, or 0
LabelInScope(goto_node) ==
    LET labels == old_irb.exec.all_labels
        in_scope == { l \in DOMAIN labels :
                          /\ labels[l].name = goto_node.name
                          /\ \E c \in DOMAIN goto_node.block_context :
                                 goto_node.block_context[c] = labels[l].context }
    IN IF in_scope = {} THEN 0
       ELSE CHOOSE l \in in_scope : \A k \in in_scope : labels[k].context <= labels[l].context

\* the instruction at the position a goto was generated at
AtGoto(goto_node, blocks) ==
    blocks[goto_node.bb].instruction_list[goto_node.instruction_index + 1]

Gotos == { old_irb.exec.goto_list[i] : i \in DOMAIN old_irb.exec.goto_list }

\* C22: after ir_goto_pass2 every goto placeholder is replaced, at its position
\* in its block, by a branch to the block of the label it names, the branch
\* carrying the ref-count of the placeholder; a goto whose label is not in scope
\* is reported as an error and IR generation fails.
C22_GotosResolved ==
    [][pc = "pass2"
       => /\ (\A g \in Gotos : LabelInScope(g) # 0)
             => \A g \in Gotos :
                   /\ AtGoto(g, bbs') # AtGoto(g, bbs)
                   /\ insts'[AtGoto(g, bbs')].id = "Br"
                   /\ insts'[AtGoto(g, bbs')].dest_blocks
                          = <<old_irb.exec.all_labels[LabelInScope(g)].bb>>
                   /\ insts'[AtGoto(g, bbs')].ref_count = insts[AtGoto(g, bbs)].ref_count
                   /\ \A b \in DOMAIN bbs :
                          /\ Len(bbs'[b].instruction_list) = Len(bbs[b].instruction_list)
                          /\ \A k \in DOMAIN bbs[b].instruction_list :
                                 (\A o \in Gotos : o.bb # b \/ o.instruction_index + 1 # k)
                                 => bbs'[b].instruction_list[k] = bbs[b].instruction_list[k]
          /\ (\E g \in Gotos : LabelInScope(g) = 0)
             => /\ old_irb'.exec.invalid
                /\ pc' = "invalid"
                /\ \E e \in DOMAIN errors' : errors'[e] = "no label in scope named"]_vars_all

\* a goto placeholder that is referred to has been replaced by a branch
C22_Witness ==
    /\ pc = "generated"
    /\ \E g \in Gotos :
          /\ insts[AtGoto(g, bbs)].id = "Br"
          /\ insts[AtGoto(g, bbs)].ref_count > 0

\* a goto whose label is not in scope has failed the generation
C22_WitnessNoLabel ==
    /\ pc = "invalid"
    /\ errors = << "no label in scope named" >>

\* ---- break and continue
RECURSIVE Encounters(_, _)
\* the builder comes to a node of one of the types when it walks the node: a
\* block is walked statement by statement
Encounters(node, types) ==
    \/ node.type \in types
    \/ /\ node.type = "Block"
       /\ \E i \in DOMAIN node.statements : Encounters(node.statements[i], types)

\* C23: a break or a continue the builder comes to while its stack of break and
\* continue targets is empty is reported as a compile error.
C23_BreakOutsideLoop ==
    [][/\ pc = "gen"
       /\ old_irb.break_block_stack = << >>
       /\ old_irb.continue_block_stack = << >>
       /\ Encounters(fn_def_body, {"Break", "Continue"})
       => /\ errors' # << >>
          /\ ~aborted']_vars_all

\* ---- the cross-link of an instruction the builder has created
\* C24: during IR construction, other == self holds for every instruction the
\* builder creates, so that a reference to an instruction that has not been
\* analyzed can be dereferenced.
C24_SelfLinked ==
    pc \in {"pass2", "generated", "invalid"}
    => \A i \in OldInsts : insts[i].other = i

\* ---- the unverified executable under analysis
\* the operands of an instruction
Operands(instruction) ==
    [op1 |-> instruction.op1, op2 |-> instruction.op2, var |-> instruction.var,
     var_type |-> instruction.var_type, dest_blocks |-> instruction.dest_blocks,
     incoming_values |-> instruction.incoming_values,
     else_block |-> instruction.else_block, case_values |-> instruction.case_values]

\* C25: analysis does not mutate the unverified IR: but for the cross-link other,
\* the static value, the operands and the ref-count of every old instruction
\* are after ir_analyze what they were before it.
C25_OldIrUntouched ==
    [][(pc \in {"begin", "loop"})
       => \A i \in OldInsts :
             /\ insts'[i].static_value = insts[i].static_value
             /\ Operands(insts'[i]) = Operands(insts[i])
             /\ insts'[i].ref_count = insts[i].ref_count]_vars_all

\* ---- definition before use
\* the operands whose other the analysis of the instruction the loop is at reads
OperandsRead ==
    LET instruction == insts[old_instruction]
        incoming == DOMAIN instruction.incoming_values
    IN CASE instruction.id \in {"Return", "LoadPtr", "CondBr", "SwitchBr", "UnwrapMaybe",
                                "DeclVar"} ->
               {instruction.op1}
         [] instruction.id \in {"BinOp", "StorePtr", "ElemPtr"} ->
               {instruction.op1, instruction.op2}
         [] instruction.id = "Phi" /\ ira.const_predecessor_bb # 0 ->
               { instruction.incoming_values[k] :
                     k \in { j \in incoming :
                                 instruction.dest_blocks[j] = ira.const_predecessor_bb } }
         [] instruction.id = "Phi" /\ ira.const_predecessor_bb = 0 ->
               { instruction.incoming_values[k] :
                     k \in { j \in incoming : bbs[instruction.dest_blocks[j]].ref_count # 0 } }
         [] OTHER -> {}

\* C26: whenever the analyzer reads the other of an operand while it analyzes an
\* instruction, the operand has been analyzed in this run: its other is not
\* null and carries a result type.  A block the Phi pre-walk has queued is so
\* not analyzed before the blocks that define the values it uses.
C26_DefinedBeforeUse ==
    Running /\ ~is_dead_code(insts[old_instruction])
    => \A operand \in OperandsRead :
          /\ insts[operand].other # 0
          /\ insts[insts[operand].other].type_entry # "null"

\* ---- the Phi instructions of the verified executable
\* the blocks of the verified executable
VerifiedBlocks ==
    { new_irb.exec.basic_block_list[k] : k \in DOMAIN new_irb.exec.basic_block_list }

\* the verified blocks that begin with a Phi
PhiBlocks ==
    { b \in VerifiedBlocks :
          /\ bbs[b].instruction_list # << >>
          /\ insts[bbs[b].instruction_list[1]].id = "Phi" }

\* the incoming blocks the Phi at the head of a verified block lists
Listed(b) ==
    { insts[bbs[b].instruction_list[1]].dest_blocks[k] :
          k \in DOMAIN insts[bbs[b].instruction_list[1]].dest_blocks }

\* the verified blocks that end in a branch to a block
BranchingTo(b) == { p \in VerifiedBlocks : b \in Successors(p) }

\* C27: in the verified executable, the incoming blocks of the Phi a block
\* begins with are exactly the verified blocks that end in a branch to the block.
C27_PhiListsPredecessors ==
    pc = "done" /\ ~new_irb.exec.invalid => \A b \in PhiBlocks : Listed(b) = BranchingTo(b)

\* ---- the values a variable holds along the paths of the unverified executable
\* What is known of a variable at a point of a path: the constant it holds, or
\* nothing, when it is not declared yet or a computed value was stored to it.
Unknown == [known |-> FALSE, value |-> ZeroValue]

\* what is known of the variable var after the instruction i, cur being what is
\* known before it
AfterInstruction(i, var, cur) ==
    LET assigned == IF insts[i].id = "DeclVar" THEN insts[i].op1 ELSE insts[i].op2
        assigns == \/ insts[i].id = "DeclVar" /\ insts[i].var = var
                   \/ /\ insts[i].id = "StorePtr"
                      /\ insts[insts[i].op1].id = "VarPtr"
                      /\ insts[insts[i].op1].var = var
    IN IF ~assigns THEN cur
       ELSE IF insts[assigned].id = "Const"
            THEN [known |-> TRUE, value |-> insts[assigned].static_value]
            ELSE Unknown

\* what is known of the variable before the k-th instruction of the block b,
\* entry being what is known when the block is entered
RECURSIVE BeforeInstruction(_, _, _, _)
BeforeInstruction(b, k, var, entry) ==
    IF k = 1 THEN entry
    ELSE AfterInstruction(bbs[b].instruction_list[k - 1], var,
                          BeforeInstruction(b, k - 1, var, entry))

\* the pairs of a block and of what is known of the variable on entering it
\* that the paths from the pairs of frontier reach
RECURSIVE Entered(_, _, _)
Entered(var, seen, frontier) ==
    IF frontier = {} THEN seen
    ELSE Entered(var, seen \cup frontier,
                 UNION { { <<s, BeforeInstruction(c[1], Len(bbs[c[1]].instruction_list) + 1,
                                                  var, c[2])>> : s \in Successors(c[1]) } :
                         c \in frontier }
                 \ (seen \cup frontier))

\* what the variable may hold when a path from the entry block arrives at the
\* k-th instruction of the block b
HeldAt(b, k, var) ==
    { BeforeInstruction(b, k, var, c[2]) :
          c \in { e \in Entered(var, {}, {<<old_irb.exec.basic_block_list[1], Unknown>>}) :
                      e[1] = b } }

\* the places <<b, k>> of the loads of a variable that the analysis has folded,
\* in the blocks that lie on no cycle and are therefore analyzed once
FoldedLoads ==
    { place \in UNION { { <<b, k>> : k \in DOMAIN bbs[b].instruction_list } :
                        b \in { a \in DOMAIN bbs : bbs[a].exec = "old" } } :
          LET load == insts[bbs[place[1]].instruction_list[place[2]]]
          IN /\ place[1] \notin ReachableFrom(Successors(place[1]))
             /\ load.id = "LoadPtr"
             /\ insts[load.op1].id = "VarPtr"
             /\ load.other # 0
             /\ insts[load.other].static_value.special = "Static" }

\* C28: a load of a variable is folded to a static value only if the variable
\* holds that value on every control-flow path of the unverified executable
\* from the declaration to the load: a static store analyzed in a block that a
\* runtime branch enters does not change what a load behind the branches folds to.
C28_FoldingSound ==
    pc = "done" /\ ~new_irb.exec.invalid
    => \A place \in FoldedLoads :
          LET load == insts[bbs[place[1]].instruction_list[place[2]]]
          IN \A held \in HeldAt(place[1], place[2], insts[load.op1].var) :
                held.known => held.value = insts[load.other].static_value

\* ---- the work queue and the block list of the verified executable
\* no element of the sequence occurs twice in it
NoDuplicates(seq) == \A j, k \in DOMAIN seq : seq[j] = seq[k] => j = k

\* C29: whatever blocks the analysis takes from the queue and whatever blocks
\* it inlines, an old block is appended to the work queue at most once and a
\* verified block occurs at most once in the block list of the verified
\* executable.
C29_QueuedAndListedOnce ==
    /\ NoDuplicates(ira.old_bb_queue)
    /\ NoDuplicates(new_irb.exec.basic_block_list)

\* ---- backward branches
\* no path of the unverified executable comes back to a block it has left
LoopFree == \A b \in OldBlocks : b \notin ReachableFrom(Successors(b))

\* C30: the backward-branch counter counts the inlined branches that re-enter
\* a block the evaluation has visited: the analysis of loop-free code, whatever
\* ifs, switches and labels it is made of, leaves the counter at zero and does
\* not report that the quota of backward branches is exceeded.
C30_LoopFreeNeverCounts ==
    pc \in {"loop", "done"} /\ LoopFree
    => new_irb.exec.backward_branch_count = 0 /\ QuotaErrors = 0

====
